---- MODULE Spec2Model ----
(***************************************************************************)
(* Segment write path of the columnar store: typed column writers, the     *)
(* segment writer (NewSegmentWriter / WriteRecord / Commit / Abort), the   *)
(* segment metadata emitter and the manifest (load / write / append).      *)
(*                                                                         *)
(* Files are modelled by their contents: a value file is the sequence of   *)
(* slots written to it, a bitmap file the sequence of bytes written to it. *)
(* A directory is named by its path (segment id, temp or final) and        *)
(* remembers which writer's column files it holds; the column files        *)
(* themselves are the file fields of that writer's column writers, because *)
(* an open file handle keeps writing to the same file wherever its         *)
(* directory is renamed to.                                                *)
(***************************************************************************)
EXTENDS Integers, Sequences, FiniteSets, TLC

----------------------------------------------------------------------------
(* Bounds of the model *)

\* WriteRecord is not called on a writer one of whose columns already holds
\* this many records.
MaxRecords == 1

\* Write is not called on the column writer used on its own once it holds
\* this many records.
MaxWrites == 9

\* Items handed to a manifest append on its own carry ids and paths of the
\* segments 1..MaxItemId.
MaxItemId == 3

\* Write is not called on the column writer given many different values once
\* it holds this many records.
MaxStatWrites == 4

\* The segment writer objects and the segment ids they may be opened for.
Writers == {1, 2}
SegIds == {1, 2}

----------------------------------------------------------------------------
(* Values handed to Write: a tagged union (Go's `any`) *)

Nil == [k |-> "nil", n |-> 0]
Missing == [k |-> "missing", n |-> 0]
I64(n) == [k |-> "int64", n |-> n]
Str(n) == [k |-> "string", n |-> n]
Bool(b) == [k |-> "bool", n |-> IF b THEN 1 ELSE 0]
F64(n) == [k |-> "float64", n |-> n]
NaN == [k |-> "nan", n |-> 0]
\* a wall-clock instant, given by its milliseconds since the Unix epoch
Time(ms) == [k |-> "time", n |-> ms]

NanosPerMilli == 1000000
UnixNano(v) == v.n * NanosPerMilli
UnixMilli(v) == v.n

----------------------------------------------------------------------------
(* Column writers *)

TypeInt64 == "int64"
TypeFloat64 == "float64"
TypeBool == "bool"
TypeString == "string"
TypeTimestamp == "timestamp"

\* One record shape for all writer types; a type uses the fields its Go
\* struct has.  fopen: the OS file handles are still open.
NewWriter(type) ==
  [type |-> type,
   valuesFile |-> << >>,   \* <name>.bin (value slots; bytes for Bool) or <name>.ids.bin
   nullsFile |-> << >>,    \* <name>.nulls.bin, bytes
   dictFile |-> << >>,     \* <name>.dict.bin, entries (String only)
   nullByte |-> 0, nullBit |-> 0,
   valueBuf |-> 0, valueBitPos |-> 0,
   count |-> 0, nullCount |-> 0,
   min |-> 0, max |-> 0, hasValue |-> FALSE,
   idToStr |-> << >>,
   closed |-> FALSE, fopen |-> TRUE]

\* mutant: bits are packed from the low-order end
LsbMask(pos) == IF pos < 8 THEN 2 ^ pos ELSE 0

\* 1 << (7 - pos) on a byte, pos a uint8
MsbMask(pos) ==
  LET s == (7 - pos) % 256 IN IF s < 8 THEN 2 ^ s ELSE 0

\* b | mask for a mask with at most one bit set
OrBit(b, mask) ==
  IF mask = 0 \/ (b \div mask) % 2 = 1 THEN b ELSE b + mask

\* writeNullBit: returns the writer and whether the call succeeded.
\* io = FALSE: a disk write attempted by the call fails.
writeNullBit(w, isNotNull, io) ==
  LET b == IF isNotNull THEN OrBit(w.nullByte, MsbMask(w.nullBit)) ELSE w.nullByte
      pos == (w.nullBit + 1) % 256
  IN IF pos = 8
       THEN IF io
              THEN [w |-> [w EXCEPT !.nullsFile = Append(@, b), !.nullByte = 0, !.nullBit = 0],
                    ok |-> TRUE]
              ELSE [w |-> [w EXCEPT !.nullByte = b, !.nullBit = pos], ok |-> FALSE]
       ELSE [w |-> [w EXCEPT !.nullByte = b, !.nullBit = pos], ok |-> TRUE]

ErrNone == "ok"
ErrClosedWriter == "closed writer"
ErrTypeMismatch == "type mismatch"
ErrNaN == "disallowed value"
ErrIO == "io"
ErrAlreadyClosed == "already closed"

Res(w, err) == [w |-> w, err |-> err]

\* mutant: min and max are updated from their zero values, whether or not a
\* value was written before
UpdateMinMaxFromZero(w, v) ==
  [w EXCEPT !.max = IF v > @ THEN v ELSE @,
            !.min = IF v < @ THEN v ELSE @,
            !.hasValue = TRUE]

\* min/max update of the Int64 and Float64 writers
UpdateMinMax(w, v) ==
  IF ~w.hasValue
    THEN [w EXCEPT !.min = v, !.max = v, !.hasValue = TRUE]
    ELSE [w EXCEPT !.max = IF v > @ THEN v ELSE @,
                   !.min = IF v < @ THEN v ELSE @]

\* The disk during one Write call: io.nulls = FALSE, a write to the null
\* bitmap file fails; io.values = FALSE, a write to the value (or id) file fails.
IoOk == [nulls |-> TRUE, values |-> TRUE]
IoOutcomes == {IoOk, [nulls |-> FALSE, values |-> TRUE], [nulls |-> TRUE, values |-> FALSE]}

\* Write of the Int64 writer (value kind "int64") and of the Float64 writer
\* (value kind "float64", NaN rejected): the two differ in the accepted kind only.
NumWrite(w, value, kind, io) ==
  IF w.closed THEN Res(w, ErrClosedWriter)
  ELSE IF value.k = "nil" THEN
    LET w1 == [w EXCEPT !.nullCount = @ + 1]
        r == writeNullBit(w1, FALSE, io.nulls)
    IN IF ~r.ok THEN Res(r.w, ErrIO)
       ELSE IF ~io.values THEN Res(r.w, ErrIO)
       ELSE Res([r.w EXCEPT !.valuesFile = Append(@, 0), !.count = @ + 1], ErrNone)
  ELSE IF value.k = "nan" /\ kind = "float64" THEN Res(w, ErrNaN)
  ELSE IF value.k # kind THEN Res(w, ErrTypeMismatch)
  ELSE
    LET r == writeNullBit(w, TRUE, io.nulls)
    IN IF ~r.ok THEN Res(r.w, ErrIO)
       ELSE IF ~io.values THEN Res(r.w, ErrIO)
       ELSE Res([UpdateMinMax(r.w, value.n) EXCEPT !.valuesFile = Append(@, value.n),
                                                   !.count = @ + 1], ErrNone)

Int64Write(w, value, io) == NumWrite(w, value, "int64", io)

\* mutant: NaN is written like any other float64
Float64WriteAllowingNaN(w, value, io) ==
  NumWrite(w, IF value.k = "nan" THEN [value EXCEPT !.k = "float64"] ELSE value, "float64", io)

Float64Write(w, value, io) == NumWrite(w, value, "float64", io)

\* mutant: an instant is stored as its milliseconds since the epoch
TimestampWriteMillis(w, value, io) ==
  IF value.k = "nil" THEN Int64Write(w, Nil, io)
  ELSE IF value.k = "time" THEN Int64Write(w, I64(UnixMilli(value)), io)
  ELSE IF value.k = "int64" THEN Int64Write(w, value, io)
  ELSE Res(w, ErrTypeMismatch)

TimestampWrite(w, value, io) ==
  IF value.k = "nil" THEN Int64Write(w, Nil, io)
  ELSE IF value.k = "time" THEN Int64Write(w, I64(UnixNano(value)), io)
  ELSE IF value.k = "int64" THEN Int64Write(w, value, io)
  ELSE Res(w, ErrTypeMismatch)

\* the value bit is packed and the counters advance before the byte is flushed
BoolPack(w, bit, io) ==
  LET buf == IF bit THEN OrBit(w.valueBuf, MsbMask(w.valueBitPos)) ELSE w.valueBuf
      pos == (w.valueBitPos + 1) % 256
      w1 == [w EXCEPT !.valueBuf = buf, !.valueBitPos = pos, !.count = @ + 1]
  IN IF pos = 8
       THEN IF io.values
              THEN Res([w1 EXCEPT !.valuesFile = Append(@, buf), !.valueBuf = 0,
                                  !.valueBitPos = 0], ErrNone)
              ELSE Res(w1, ErrIO)
       ELSE Res(w1, ErrNone)

\* mutant: the null bitmap is marked before the type of the value is checked
BoolWriteMarkingFirst(w, value, io) ==
  IF w.closed THEN Res(w, ErrClosedWriter)
  ELSE IF value.k = "nil" THEN
    LET w1 == [w EXCEPT !.nullCount = @ + 1]
        r == writeNullBit(w1, FALSE, io.nulls)
    IN IF ~r.ok THEN Res(r.w, ErrIO) ELSE BoolPack(r.w, FALSE, io)
  ELSE
    LET r == writeNullBit(w, TRUE, io.nulls)
    IN IF value.k # "bool" THEN Res(r.w, ErrTypeMismatch)
       ELSE IF ~r.ok THEN Res(r.w, ErrIO) ELSE BoolPack(r.w, value.n = 1, io)

BoolWrite(w, value, io) ==
  IF w.closed THEN Res(w, ErrClosedWriter)
  ELSE IF value.k = "nil" THEN
    LET w1 == [w EXCEPT !.nullCount = @ + 1]
        r == writeNullBit(w1, FALSE, io.nulls)
    IN IF ~r.ok THEN Res(r.w, ErrIO) ELSE BoolPack(r.w, FALSE, io)
  ELSE IF value.k # "bool" THEN Res(w, ErrTypeMismatch)
  ELSE
    LET r == writeNullBit(w, TRUE, io.nulls)
    IN IF ~r.ok THEN Res(r.w, ErrIO) ELSE BoolPack(r.w, value.n = 1, io)

\* strToID[s]: 0 when s is not in the dictionary
DictId(idToStr, s) ==
  IF \E i \in 1..Len(idToStr) : idToStr[i] = s
    THEN CHOOSE i \in 1..Len(idToStr) : idToStr[i] = s
    ELSE 0

\* mutant: ids are the 0-based positions in the dictionary
StringWriteZeroBased(w, value, io) ==
  IF w.closed THEN Res(w, ErrClosedWriter)
  ELSE IF value.k = "nil" THEN
    LET w1 == [w EXCEPT !.nullCount = @ + 1]
        r == writeNullBit(w1, FALSE, io.nulls)
    IN IF ~r.ok THEN Res(r.w, ErrIO)
       ELSE IF ~io.values THEN Res(r.w, ErrIO)
       ELSE Res([r.w EXCEPT !.valuesFile = Append(@, 0), !.count = @ + 1], ErrNone)
  ELSE IF value.k # "string" THEN Res(w, ErrTypeMismatch)
  ELSE
    LET r == writeNullBit(w, TRUE, io.nulls)
    IN IF ~r.ok THEN Res(r.w, ErrIO)
       ELSE
         LET known == DictId(r.w.idToStr, value.n) # 0
             id == IF known THEN DictId(r.w.idToStr, value.n) - 1 ELSE Len(r.w.idToStr)
             w2 == IF known THEN r.w ELSE [r.w EXCEPT !.idToStr = Append(@, value.n)]
         IN IF ~io.values THEN Res(w2, ErrIO)
            ELSE Res([w2 EXCEPT !.valuesFile = Append(@, id), !.count = @ + 1], ErrNone)

StringWrite(w, value, io) ==
  IF w.closed THEN Res(w, ErrClosedWriter)
  ELSE IF value.k = "nil" THEN
    LET w1 == [w EXCEPT !.nullCount = @ + 1]
        r == writeNullBit(w1, FALSE, io.nulls)
    IN IF ~r.ok THEN Res(r.w, ErrIO)
       ELSE IF ~io.values THEN Res(r.w, ErrIO)
       ELSE Res([r.w EXCEPT !.valuesFile = Append(@, 0), !.count = @ + 1], ErrNone)
  ELSE IF value.k # "string" THEN Res(w, ErrTypeMismatch)
  ELSE
    LET r == writeNullBit(w, TRUE, io.nulls)
    IN IF ~r.ok THEN Res(r.w, ErrIO)
       ELSE
         LET known == DictId(r.w.idToStr, value.n) # 0
             id == IF known THEN DictId(r.w.idToStr, value.n) ELSE Len(r.w.idToStr) + 1
             w2 == IF known THEN r.w ELSE [r.w EXCEPT !.idToStr = Append(@, value.n)]
         IN IF ~io.values THEN Res(w2, ErrIO)
            ELSE Res([w2 EXCEPT !.valuesFile = Append(@, id), !.count = @ + 1], ErrNone)

\* ColumnWriter.Write, dispatched on the writer's dynamic type
Write(w, value, io) ==
  CASE w.type = TypeInt64 -> Int64Write(w, value, io)
    [] w.type = TypeFloat64 -> Float64Write(w, value, io)
    [] w.type = TypeBool -> BoolWrite(w, value, io)
    [] w.type = TypeString -> StringWrite(w, value, io)
    [] w.type = TypeTimestamp -> TimestampWrite(w, value, io)

\* mutant: Close does not flush the value bits of a partly filled byte
CloseDroppingValueBits(w, io) ==
  IF w.closed THEN Res(w, ErrAlreadyClosed)
  ELSE
    LET w1 == [w EXCEPT !.closed = TRUE]
    IN IF ~io THEN Res(w1, ErrIO)
       ELSE Res([w1 EXCEPT
                   !.nullsFile = IF w.nullBit > 0 THEN Append(@, w.nullByte) ELSE @,
                   !.dictFile = IF w.type = TypeString THEN w.idToStr ELSE @,
                   !.fopen = FALSE], ErrNone)

\* mutant: Close on a closed writer succeeds
CloseAgain(w, io) ==
  IF w.closed THEN Res(w, ErrNone)
  ELSE
    LET w1 == [w EXCEPT !.closed = TRUE]
    IN IF ~io THEN Res(w1, ErrIO)
       ELSE Res([w1 EXCEPT
                   !.valuesFile = IF w.type = TypeBool /\ w.valueBitPos > 0
                                    THEN Append(@, w.valueBuf) ELSE @,
                   !.nullsFile = IF w.nullBit > 0 THEN Append(@, w.nullByte) ELSE @,
                   !.dictFile = IF w.type = TypeString THEN w.idToStr ELSE @,
                   !.fopen = FALSE], ErrNone)

\* ColumnWriter.Close.  io = FALSE: the flush or a file close fails, and the
\* call returns before every file is flushed and closed.
Close(w, io) ==
  IF w.closed THEN Res(w, ErrAlreadyClosed)
  ELSE
    LET w1 == [w EXCEPT !.closed = TRUE]
    IN IF ~io THEN Res(w1, ErrIO)
       ELSE Res([w1 EXCEPT
                   !.valuesFile = IF w.type = TypeBool /\ w.valueBitPos > 0
                                    THEN Append(@, w.valueBuf) ELSE @,
                   !.nullsFile = IF w.nullBit > 0 THEN Append(@, w.nullByte) ELSE @,
                   !.dictFile = IF w.type = TypeString THEN w.idToStr ELSE @,
                   !.fopen = FALSE], ErrNone)

RecordCount(w) == w.count
NullCount(w) == w.nullCount
Min(w) == w.min
Max(w) == w.max
DictionarySize(w) == Len(w.idToStr)

----------------------------------------------------------------------------
(* Schema *)

Column(name, type, nullable) == [name |-> name, type |-> type, nullable |-> nullable]

\* The schemas a datastore of the model may have: a nullable Int64 column and
\* a non-nullable String column, in either order.
Schemas ==
  { << Column("age", TypeInt64, TRUE), Column("id", TypeString, FALSE) >>,
    << Column("id", TypeString, FALSE), Column("age", TypeInt64, TRUE) >> }

\* The values a record may carry for a column (Missing: the key is absent).
RecordValues == {Missing, Nil, I64(1), Str(1)}

----------------------------------------------------------------------------
(* Paths *)

RECURSIVE Digits(_)
Digits(n) == IF n < 10 THEN << n >> ELSE Digits(n \div 10) \o << n % 10 >>

RECURSIVE ZeroPad(_, _)
ZeroPad(ds, width) == IF Len(ds) >= width THEN ds ELSE ZeroPad(<< 0 >> \o ds, width)

SegWidth == 6

\* fmt.Sprintf("seg_%06d", segmentID)
SegName(id) == << "seg_" >> \o ZeroPad(Digits(id), SegWidth)

\* A path is the sequence of its components, a component (a name) the
\* sequence of its characters, as SegName gives it.
Base(path) == path[Len(path)]
Dir(path) == SubSeq(path, 1, Len(path) - 1)
Join(path, name) == Append(path, name)

\* filepath.Rel(base, target) for a target below base
Rel(base, target) == SubSeq(target, Len(base) + 1, Len(target))

\* filepath.ToSlash of a relative path: its names, "/" between them
RECURSIVE ToSlash(_)
ToSlash(path) ==
  IF Len(path) = 0 THEN << >>
  ELSE IF Len(path) = 1 THEN path[1]
  ELSE path[1] \o << "/" >> \o ToSlash(SubSeq(path, 2, Len(path)))

manifestPathForSegmentsDir(segmentsDir) ==
  IF Base(segmentsDir) = << "segments" >>
    THEN Join(Dir(segmentsDir), << "manifest.json" >>)
    ELSE Join(segmentsDir, << "manifest.json" >>)

\* the path updateManifest puts in the manifest item of segment id
ItemPath(basePath, id) ==
  ToSlash(Rel(Dir(manifestPathForSegmentsDir(basePath)), Join(basePath, SegName(id))))

\* the base directory of the datastore of the model
BasePath == << << "data" >>, << "segments" >> >>

\* the final directory relative to the directory of the manifest, for a base
\* directory <root>/segments
RelPath(id) == ItemPath(BasePath, id)

----------------------------------------------------------------------------
(* State *)

VARIABLES
  schema,    \* the schema of the datastore
  sw,        \* sw[w]: the SegmentWriter object w
  pc,        \* pc[w]: "none" (not constructed), "ready" (no call in progress),
             \*        or the step of Commit / of a manifest append w is at
  op,        \* op[w]: the multi-step call in progress or last made ("Commit", "Retry")
  alive,     \* alive[w]: the process that runs w has not been stopped
  ret,       \* ret[w]: the last call that returned on w and its error
  aborted,   \* aborted[w]: Abort() was called on w while it was uncommitted
  accepted,  \* accepted[w]: the records of the WriteRecord calls on w that
             \*              returned success, in order
  tmp,       \* tmp[id]: the directory seg_NNNNNN.tmp
  fin,       \* fin[id]: the directory seg_NNNNNN
  manifest,  \* the file manifest.json
  loaded,    \* loaded[w]: the manifest under construction in appendManifestItem
  replaced,  \* replaced[w]: w is inside appendManifestItem, and since it loaded
             \*              manifest.json the append of another writer replaced it
  mtmp,      \* mtmp[w]: the temp file manifest-*.json of w's writeManifest:
             \*          "none", "partial" (created, not yet encoded and closed)
             \*          or "whole" (holds loaded[w], closed)
  cw,        \* a column writer used on its own (outside a segment writer)
  cret,      \* the last call that returned on cw and its error
  written,   \* the values of the Write calls on cw that returned success, in order
  ioFailed   \* a call on cw has failed on a disk error

vars == << schema, sw, pc, op, alive, ret, aborted, accepted, tmp, fin, manifest, loaded,
          replaced, mtmp, cw, cret, written, ioFailed >>

\* the state of the column writer used on its own / of the segment store
colVars == << cw, cret, written, ioFailed >>
segVars == << schema, sw, pc, op, alive, ret, aborted, accepted, tmp, fin, manifest, loaded,
             replaced, mtmp >>

NumCols == Len(schema)
Cols == 1..NumCols

NoDir == [exists |-> FALSE, creator |-> 0, meta |-> << >>]
NoManifest == [exists |-> FALSE, version |-> 0, segments |-> << >>]
NoWriter == [segmentID |-> 0, recordCount |-> 0, committed |-> FALSE, writers |-> << >>]
Ret(o, e) == [op |-> o, err |-> e]

ErrExists == "already exists"
ErrCommitted == "write to committed segment"
ErrAlreadyCommitted == "already committed"
ErrMissing == "missing column value"
ErrNullViolation == "null in non-nullable column"
ErrMismatch == "record count mismatch"
ErrManifestFailed == "manifest update failed"
ErrDuplicate == "duplicate segment identity"

\* the segment store before any call
SegInit ==
  /\ schema \in Schemas
  /\ sw = [w \in Writers |-> NoWriter]
  /\ pc = [w \in Writers |-> "none"]
  /\ op = [w \in Writers |-> "none"]
  /\ alive = [w \in Writers |-> TRUE]
  /\ ret = [w \in Writers |-> Ret("none", ErrNone)]
  /\ aborted = [w \in Writers |-> FALSE]
  /\ accepted = [w \in Writers |-> << >>]
  /\ tmp = [id \in SegIds |-> NoDir]
  /\ fin = [id \in SegIds |-> NoDir]
  /\ manifest = NoManifest
  /\ loaded = [w \in Writers |-> NoManifest]
  /\ replaced = [w \in Writers |-> FALSE]
  /\ mtmp = [w \in Writers |-> "none"]

Init ==
  /\ SegInit
  /\ cw = NewWriter(TypeInt64)
  /\ cret = Ret("none", ErrNone)
  /\ written = << >>
  /\ ioFailed = FALSE

----------------------------------------------------------------------------
(* Segment writer *)

\* createColumnWriter
createColumnWriter(col) == NewWriter(col.type)

\* mutant: the temp directory is made with MkdirAll semantics, so that an
\* existing directory is taken over
NewSegmentWriterMkdirAll(w, id, mkdirOk, failAt) ==
  /\ pc[w] = "none" /\ alive[w]
  /\ IF ~mkdirOk
       THEN /\ ret' = [ret EXCEPT ![w] = Ret("NewSegmentWriter", ErrIO)]
            /\ UNCHANGED << sw, pc, tmp >>
       ELSE /\ tmp' = [tmp EXCEPT ![id] = [exists |-> TRUE, creator |-> w, meta |-> << >>]]
            /\ sw' = [sw EXCEPT ![w] =
                        [segmentID |-> id, recordCount |-> 0, committed |-> FALSE,
                         writers |-> [i \in Cols |-> createColumnWriter(schema[i])]]]
            /\ pc' = [pc EXCEPT ![w] = "ready"]
            /\ ret' = [ret EXCEPT ![w] = Ret("NewSegmentWriter", ErrNone)]
  /\ UNCHANGED << schema, accepted, op, alive, aborted, fin, manifest, loaded, mtmp, replaced, colVars >>

\* mutant: the column writers made before the failing one are not closed
NewSegmentWriterLeakingFiles(w, id, mkdirOk, failAt) ==
  /\ pc[w] = "none" /\ alive[w]
  /\ IF tmp[id].exists \/ ~mkdirOk
       THEN /\ ret' = [ret EXCEPT ![w] = Ret("NewSegmentWriter",
                                             IF tmp[id].exists THEN ErrExists ELSE ErrIO)]
            /\ UNCHANGED << sw, pc, tmp >>
       ELSE IF failAt # 0
         THEN \* the columns before failAt are left open, the temp
              \* directory is removed; no SegmentWriter is returned (pc stays
              \* "none") and sw[w].writers keeps the column writers the call made
              /\ ret' = [ret EXCEPT ![w] = Ret("NewSegmentWriter", ErrIO)]
              /\ tmp' = [tmp EXCEPT ![id] = NoDir]
              /\ sw' = [sw EXCEPT ![w] =
                          [NoWriter EXCEPT !.writers =
                             [j \in 1..(failAt - 1) |-> createColumnWriter(schema[j])]]]
              /\ UNCHANGED pc
         ELSE /\ tmp' = [tmp EXCEPT ![id] = [exists |-> TRUE, creator |-> w, meta |-> << >>]]
              /\ sw' = [sw EXCEPT ![w] =
                          [segmentID |-> id, recordCount |-> 0, committed |-> FALSE,
                           writers |-> [i \in Cols |-> createColumnWriter(schema[i])]]]
              /\ pc' = [pc EXCEPT ![w] = "ready"]
              /\ ret' = [ret EXCEPT ![w] = Ret("NewSegmentWriter", ErrNone)]
  /\ UNCHANGED << schema, accepted, op, alive, aborted, fin, manifest, loaded, mtmp, replaced, colVars >>

\* NewSegmentWriter(basePath, id, schema).  mkdirOk = FALSE: os.Mkdir fails for
\* a reason other than the directory existing; failAt = i > 0: creating the
\* writer of column i fails.
NewSegmentWriter(w, id, mkdirOk, failAt) ==
  /\ pc[w] = "none" /\ alive[w]
  /\ IF tmp[id].exists \/ ~mkdirOk
       THEN /\ ret' = [ret EXCEPT ![w] = Ret("NewSegmentWriter",
                                             IF tmp[id].exists THEN ErrExists ELSE ErrIO)]
            /\ UNCHANGED << sw, pc, tmp >>
       ELSE IF failAt # 0
         THEN \* the columns before failAt are closed, the temp
              \* directory is removed; no SegmentWriter is returned (pc stays
              \* "none") and sw[w].writers keeps the column writers the call made
              /\ ret' = [ret EXCEPT ![w] = Ret("NewSegmentWriter", ErrIO)]
              /\ tmp' = [tmp EXCEPT ![id] = NoDir]
              /\ sw' = [sw EXCEPT ![w] =
                          [NoWriter EXCEPT !.writers =
                             [j \in 1..(failAt - 1) |-> Close(createColumnWriter(schema[j]), TRUE).w]]]
              /\ UNCHANGED pc
         ELSE /\ tmp' = [tmp EXCEPT ![id] = [exists |-> TRUE, creator |-> w, meta |-> << >>]]
              /\ sw' = [sw EXCEPT ![w] =
                          [segmentID |-> id, recordCount |-> 0, committed |-> FALSE,
                           writers |-> [i \in Cols |-> createColumnWriter(schema[i])]]]
              /\ pc' = [pc EXCEPT ![w] = "ready"]
              /\ ret' = [ret EXCEPT ![w] = Ret("NewSegmentWriter", ErrNone)]
  /\ UNCHANGED << schema, accepted, op, alive, aborted, fin, manifest, loaded, mtmp, replaced, colVars >>

isNilValue(value) == value.k \in {"nil", "nilptr"}

\* The loop of WriteRecord over the schema columns from column i on.
RECURSIVE WriteColumns(_, _, _, _)
WriteColumns(cols, writers, record, i) ==
  IF i > Len(cols) THEN [writers |-> writers, err |-> ErrNone]
  ELSE IF record[i].k = "missing" THEN [writers |-> writers, err |-> ErrMissing]
  ELSE IF ~cols[i].nullable /\ isNilValue(record[i])
    THEN [writers |-> writers, err |-> ErrNullViolation]
  ELSE
    LET r == Write(writers[i], record[i], IoOk)
        ws == [writers EXCEPT ![i] = r.w]
    IN IF r.err # ErrNone THEN [writers |-> ws, err |-> r.err]
       ELSE WriteColumns(cols, ws, record, i + 1)

\* mutant: the committed flag is not consulted
WriteRecordIgnoringCommitted(w, record) ==
  /\ pc[w] = "ready" /\ alive[w]
  /\ sw[w].committed \/ \A i \in Cols : RecordCount(sw[w].writers[i]) < MaxRecords
  /\ LET r == WriteColumns(schema, sw[w].writers, record, 1)
     IN /\ sw' = [sw EXCEPT ![w].writers = r.writers,
                            ![w].recordCount = IF r.err = ErrNone THEN @ + 1 ELSE @]
        /\ ret' = [ret EXCEPT ![w] = Ret("WriteRecord", r.err)]
        /\ accepted' = [accepted EXCEPT ![w] = IF r.err = ErrNone THEN Append(@, record) ELSE @]
  /\ UNCHANGED << schema, pc, op, alive, aborted, tmp, fin, manifest, loaded, mtmp, replaced, colVars >>

WriteRecord(w, record) ==
  /\ pc[w] = "ready" /\ alive[w]
  /\ sw[w].committed \/ \A i \in Cols : RecordCount(sw[w].writers[i]) < MaxRecords
  /\ IF sw[w].committed
       THEN /\ ret' = [ret EXCEPT ![w] = Ret("WriteRecord", ErrCommitted)]
            /\ UNCHANGED << sw, accepted >>
       ELSE LET r == WriteColumns(schema, sw[w].writers, record, 1)
            IN /\ sw' = [sw EXCEPT ![w].writers = r.writers,
                                   ![w].recordCount = IF r.err = ErrNone THEN @ + 1 ELSE @]
               /\ ret' = [ret EXCEPT ![w] = Ret("WriteRecord", r.err)]
               /\ accepted' = [accepted EXCEPT ![w] =
                                 IF r.err = ErrNone THEN Append(@, record) ELSE @]
  /\ UNCHANGED << schema, pc, op, alive, aborted, tmp, fin, manifest, loaded, mtmp, replaced, colVars >>

\* mutant: the temp directory is left in place
RemoveTempSkipped(w) == tmp

\* os.RemoveAll(w.tempDir)
RemoveTemp(w) == [tmp EXCEPT ![sw[w].segmentID] = NoDir]

\* mutant: the temp directory is removed with os.Remove semantics, so that a
\* missing directory is an error
AbortFailingOnMissing(w) ==
  /\ pc[w] = "ready" /\ alive[w]
  /\ tmp' = RemoveTemp(w)
  /\ aborted' = [aborted EXCEPT ![w] = @ \/ ~sw[w].committed]
  /\ ret' = [ret EXCEPT ![w] =
               Ret("Abort", IF tmp[sw[w].segmentID].exists THEN ErrNone ELSE ErrIO)]
  /\ UNCHANGED << schema, accepted, sw, pc, op, alive, fin, manifest, loaded, mtmp, replaced, colVars >>

\* mutant: the final directory is removed as well
AbortRemovingFinal(w) ==
  /\ pc[w] = "ready" /\ alive[w]
  /\ tmp' = RemoveTemp(w)
  /\ fin' = [fin EXCEPT ![sw[w].segmentID] = NoDir]
  /\ aborted' = [aborted EXCEPT ![w] = @ \/ ~sw[w].committed]
  /\ ret' = [ret EXCEPT ![w] = Ret("Abort", ErrNone)]
  /\ UNCHANGED << schema, accepted, sw, pc, op, alive, manifest, loaded, mtmp, replaced, colVars >>

Abort(w) ==
  /\ pc[w] = "ready" /\ alive[w]
  /\ tmp' = RemoveTemp(w)
  /\ aborted' = [aborted EXCEPT ![w] = @ \/ ~sw[w].committed]
  /\ ret' = [ret EXCEPT ![w] = Ret("Abort", ErrNone)]
  /\ UNCHANGED << schema, accepted, sw, pc, op, alive, fin, manifest, loaded, mtmp, replaced, colVars >>

----------------------------------------------------------------------------
(* Segment metadata *)

\* mutant: min_value and max_value are emitted for every numeric column
ColumnMetaAlwaysStats(col, writer) ==
  LET hasStats == col.type \in {TypeInt64, TypeTimestamp, TypeFloat64}
  IN [name |-> col.name,
      type |-> col.type,
      record_count |-> RecordCount(writer),
      null_count |-> NullCount(writer),
      min_value |-> IF hasStats THEN << Min(writer) >> ELSE << >>,
      max_value |-> IF hasStats THEN << Max(writer) >> ELSE << >>,
      dictionary_size |-> IF col.type = TypeString THEN DictionarySize(writer) ELSE 0]

\* ColumnMetadata of column i, as writeMetadata assembles it.  min_value and
\* max_value are optional: << >> when omitted, << v >> when present.
ColumnMeta(col, writer) ==
  LET hasStats == col.type \in {TypeInt64, TypeTimestamp, TypeFloat64}
                  /\ NullCount(writer) < RecordCount(writer)
  IN [name |-> col.name,
      type |-> col.type,
      record_count |-> RecordCount(writer),
      null_count |-> NullCount(writer),
      min_value |-> IF hasStats THEN << Min(writer) >> ELSE << >>,
      max_value |-> IF hasStats THEN << Max(writer) >> ELSE << >>,
      dictionary_size |-> IF col.type = TypeString THEN DictionarySize(writer) ELSE 0]

SegmentMetadata(w) ==
  [segment_id |-> sw[w].segmentID,
   record_count |-> sw[w].recordCount,
   columns |-> [i \in Cols |-> ColumnMeta(schema[i], sw[w].writers[i])]]

----------------------------------------------------------------------------
(* Manifest *)

manifestVersion == 1

ManifestItem(id, path, rc) == [id |-> id, path |-> path, record_count |-> rc]

\* mutant: the file on disk is not read
loadManifestFresh(file) ==
  [exists |-> TRUE, version |-> manifestVersion, segments |-> << >>]

\* loadManifest: an absent file is the empty manifest
loadManifest(file) ==
  IF ~file.exists
    THEN [exists |-> TRUE, version |-> manifestVersion, segments |-> << >>]
    ELSE [file EXCEPT !.version = IF @ = 0 THEN manifestVersion ELSE @]

\* mutant: only the newest entry is compared with the item
HasDuplicateLastOnly(segments, item) ==
  /\ Len(segments) > 0
  /\ \/ segments[Len(segments)].id = item.id
     \/ segments[Len(segments)].path = item.path

\* mutant: only the ids are compared
HasDuplicateIdOnly(segments, item) ==
  \E i \in 1..Len(segments) : segments[i].id = item.id

\* the duplicate check of appendManifestItem
HasDuplicate(segments, item) ==
  \E i \in 1..Len(segments) :
    segments[i].id = item.id \/ segments[i].path = item.path

\* the item updateManifest builds for writer w
ItemOf(w) == ManifestItem(sw[w].segmentID, RelPath(sw[w].segmentID), sw[w].recordCount)

----------------------------------------------------------------------------
(* Commit, step by step *)

\* The error a finished manifest append returns: Commit wraps it.
AppendErr(w, err) == IF op[w] = "Commit" /\ err # ErrNone THEN ErrManifestFailed ELSE err

\* The error value Close returns to Commit: the already-closed error names
\* the type of the writer and a disk error the file, so that the errors of
\* two columns of a schema of the model (one Int64, one String) differ.
ErrCloseInt64 == "io closing int64 column"
ErrCloseString == "io closing string column"
ErrClosedInt64 == "int64 writer already closed"
ErrClosedString == "string writer already closed"

CloseErr(col, err) ==
  CASE err = ErrNone -> ErrNone
    [] err = ErrIO -> IF col.type = TypeString THEN ErrCloseString ELSE ErrCloseInt64
    [] err = ErrAlreadyClosed ->
         IF col.type = TypeString THEN ErrClosedString ELSE ErrClosedInt64

\* mutant: the error of the last failing Close is kept
LastFailed(results) ==
  IF \E i \in 1..Len(results) : results[i].err # ErrNone
    THEN CHOOSE i \in 1..Len(results) :
           /\ results[i].err # ErrNone
           /\ \A j \in (i + 1)..Len(results) : results[j].err = ErrNone
    ELSE 0

\* first index whose Close failed, 0 if none
FirstFailed(results) ==
  IF \E i \in 1..Len(results) : results[i].err # ErrNone
    THEN CHOOSE i \in 1..Len(results) :
           /\ results[i].err # ErrNone
           /\ \A j \in 1..(i - 1) : results[j].err = ErrNone
    ELSE 0

\* Commit up to and including the best-effort close of the column writers.
\* closeOk[i] = FALSE: the flush or file close of column i fails.
CommitClose(w, closeOk) ==
  /\ pc[w] = "ready" /\ alive[w]
  /\ IF sw[w].committed
       THEN /\ ret' = [ret EXCEPT ![w] = Ret("Commit", ErrAlreadyCommitted)]
            /\ UNCHANGED << sw, pc, op, tmp >>
       ELSE LET results == [i \in Cols |-> Close(sw[w].writers[i], closeOk[i])]
                f == FirstFailed(results)
            IN /\ sw' = [sw EXCEPT ![w].writers = [i \in Cols |-> results[i].w]]
               /\ op' = [op EXCEPT ![w] = "Commit"]
               /\ IF f # 0
                    THEN /\ tmp' = RemoveTemp(w)
                         /\ ret' = [ret EXCEPT ![w] =
                                      Ret("Commit", CloseErr(schema[f], results[f].err))]
                         /\ UNCHANGED pc
                    ELSE /\ pc' = [pc EXCEPT ![w] = "commit_meta"]
                         /\ UNCHANGED << ret, tmp >>
  /\ UNCHANGED << schema, accepted, alive, aborted, fin, manifest, loaded, mtmp, replaced, colVars >>

\* The alignment check and writeMetadata.  io = FALSE: creating, encoding or
\* closing metadata.json fails.
CommitMeta(w, io) ==
  LET id == sw[w].segmentID IN
  /\ pc[w] = "commit_meta" /\ alive[w]
  /\ IF \E i \in Cols : RecordCount(sw[w].writers[i]) # sw[w].recordCount
       THEN /\ tmp' = RemoveTemp(w)
            /\ ret' = [ret EXCEPT ![w] = Ret("Commit", ErrMismatch)]
            /\ pc' = [pc EXCEPT ![w] = "ready"]
       ELSE IF ~tmp[id].exists \/ ~io
         THEN /\ tmp' = RemoveTemp(w)
              /\ ret' = [ret EXCEPT ![w] = Ret("Commit", ErrIO)]
              /\ pc' = [pc EXCEPT ![w] = "ready"]
         ELSE /\ tmp' = [tmp EXCEPT ![id].meta = << SegmentMetadata(w) >>]
              /\ pc' = [pc EXCEPT ![w] = "commit_rename"]
              /\ UNCHANGED ret
  /\ UNCHANGED << schema, accepted, sw, op, alive, aborted, fin, manifest, loaded, mtmp, replaced, colVars >>

\* os.Rename(tempDir, finalDir) succeeds when the source exists and the
\* target does not (an existing final directory is never empty).
CanRename(id) == tmp[id].exists /\ ~fin[id].exists

\* The rename and the committed flag.  io = FALSE: the rename fails.
CommitRename(w, io) ==
  LET id == sw[w].segmentID IN
  /\ pc[w] = "commit_rename" /\ alive[w]
  /\ IF CanRename(id) /\ io
       THEN /\ fin' = [fin EXCEPT ![id] = tmp[id]]
            /\ tmp' = [tmp EXCEPT ![id] = NoDir]
            /\ sw' = [sw EXCEPT ![w].committed = TRUE]
            /\ pc' = [pc EXCEPT ![w] = "manifest_load"]
            /\ UNCHANGED ret
       ELSE /\ tmp' = RemoveTemp(w)
            /\ ret' = [ret EXCEPT ![w] = Ret("Commit", ErrIO)]
            /\ pc' = [pc EXCEPT ![w] = "ready"]
            /\ UNCHANGED << sw, fin >>
  /\ UNCHANGED << schema, accepted, op, alive, aborted, manifest, loaded, mtmp, replaced, colVars >>

\* the positions of a writer inside appendManifestItem after its loadManifest
LoadedPcs == {"manifest_create", "manifest_encode", "manifest_write"}

\* mutant: the new item is put in front of the loaded entries
ManifestLoadPrepending(w, io) ==
  /\ pc[w] = "manifest_load" /\ (alive[w] \/ op[w] = "Retry")
  /\ IF ~io \/ HasDuplicate(loadManifest(manifest).segments, ItemOf(w))
       THEN /\ ret' = [ret EXCEPT ![w] =
                         Ret(op[w], AppendErr(w, IF ~io THEN ErrIO ELSE ErrDuplicate))]
            /\ pc' = [pc EXCEPT ![w] = "ready"]
            /\ UNCHANGED loaded
       ELSE /\ loaded' = [loaded EXCEPT ![w] =
                            [loadManifest(manifest) EXCEPT !.segments = << ItemOf(w) >> \o @]]
            /\ pc' = [pc EXCEPT ![w] = "manifest_create"]
            /\ UNCHANGED ret
  /\ replaced' = [replaced EXCEPT ![w] = FALSE]
  /\ UNCHANGED << schema, accepted, sw, op, alive, aborted, tmp, fin, manifest, mtmp, colVars >>

\* appendManifestItem up to the call of writeManifest: load, duplicate check,
\* append in memory.  io = FALSE: opening or decoding the manifest fails.
\* A retry is run by the caller, whether or not the writer's process is alive.
ManifestLoad(w, io) ==
  /\ pc[w] = "manifest_load" /\ (alive[w] \/ op[w] = "Retry")
  /\ IF ~io \/ HasDuplicate(loadManifest(manifest).segments, ItemOf(w))
       THEN /\ ret' = [ret EXCEPT ![w] =
                         Ret(op[w], AppendErr(w, IF ~io THEN ErrIO ELSE ErrDuplicate))]
            /\ pc' = [pc EXCEPT ![w] = "ready"]
            /\ UNCHANGED loaded
       ELSE /\ loaded' = [loaded EXCEPT ![w] =
                            [loadManifest(manifest) EXCEPT !.segments = Append(@, ItemOf(w))]]
            /\ pc' = [pc EXCEPT ![w] = "manifest_create"]
            /\ UNCHANGED ret
  /\ replaced' = [replaced EXCEPT ![w] = FALSE]
  /\ UNCHANGED << schema, accepted, sw, op, alive, aborted, tmp, fin, manifest, mtmp, colVars >>

\* writeManifest, first part: os.MkdirAll and os.CreateTemp leave an empty
\* temp file next to manifest.json.  io = FALSE: one of the two fails.
ManifestCreate(w, io) ==
  /\ pc[w] = "manifest_create" /\ (alive[w] \/ op[w] = "Retry")
  /\ IF io
       THEN /\ mtmp' = [mtmp EXCEPT ![w] = "partial"]
            /\ pc' = [pc EXCEPT ![w] = "manifest_encode"]
            /\ UNCHANGED << ret, loaded >>
       ELSE /\ ret' = [ret EXCEPT ![w] = Ret(op[w], AppendErr(w, ErrIO))]
            /\ pc' = [pc EXCEPT ![w] = "ready"]
            /\ loaded' = [loaded EXCEPT ![w] = NoManifest]
            /\ UNCHANGED mtmp
  /\ replaced' = [replaced EXCEPT ![w] = @ /\ io]
  /\ UNCHANGED << schema, accepted, sw, op, alive, aborted, tmp, fin, manifest, colVars >>

\* mutant: the document is encoded into manifest.json itself
ManifestEncodeInPlace(w, io) ==
  /\ pc[w] = "manifest_encode" /\ (alive[w] \/ op[w] = "Retry")
  /\ manifest' = IF io THEN loaded[w] ELSE [loaded[w] EXCEPT !.segments = << >>]
  /\ IF io
       THEN /\ mtmp' = [mtmp EXCEPT ![w] = "whole"]
            /\ pc' = [pc EXCEPT ![w] = "manifest_write"]
            /\ UNCHANGED << ret, loaded >>
       ELSE /\ mtmp' = [mtmp EXCEPT ![w] = "none"]
            /\ ret' = [ret EXCEPT ![w] = Ret(op[w], AppendErr(w, ErrIO))]
            /\ pc' = [pc EXCEPT ![w] = "ready"]
            /\ loaded' = [loaded EXCEPT ![w] = NoManifest]
  /\ replaced' = [replaced EXCEPT ![w] = @ /\ io]
  /\ UNCHANGED << schema, accepted, sw, op, alive, aborted, tmp, fin, colVars >>

\* writeManifest, second part: the document is encoded into the temp file and
\* the temp file is closed.  io = FALSE: Encode or Close fails and the temp
\* file is removed.
ManifestEncode(w, io) ==
  /\ pc[w] = "manifest_encode" /\ (alive[w] \/ op[w] = "Retry")
  /\ IF io
       THEN /\ mtmp' = [mtmp EXCEPT ![w] = "whole"]
            /\ pc' = [pc EXCEPT ![w] = "manifest_write"]
            /\ UNCHANGED << ret, loaded >>
       ELSE /\ mtmp' = [mtmp EXCEPT ![w] = "none"]
            /\ ret' = [ret EXCEPT ![w] = Ret(op[w], AppendErr(w, ErrIO))]
            /\ pc' = [pc EXCEPT ![w] = "ready"]
            /\ loaded' = [loaded EXCEPT ![w] = NoManifest]
  /\ replaced' = [replaced EXCEPT ![w] = @ /\ io]
  /\ UNCHANGED << schema, accepted, sw, op, alive, aborted, tmp, fin, manifest, colVars >>

\* mutant: manifest.json is truncated and rewritten in place, so that a
\* failure leaves it empty
ManifestWriteInPlace(w, io) ==
  /\ pc[w] = "manifest_write" /\ (alive[w] \/ op[w] = "Retry")
  /\ manifest' = IF io THEN loaded[w] ELSE [loaded[w] EXCEPT !.segments = << >>]
  /\ loaded' = [loaded EXCEPT ![w] = NoManifest]
  /\ mtmp' = [mtmp EXCEPT ![w] = "none"]
  /\ replaced' = [v \in Writers |->
                    v # w /\ (replaced[v] \/ (io /\ pc[v] \in LoadedPcs))]
  /\ ret' = [ret EXCEPT ![w] = Ret(op[w], AppendErr(w, IF io THEN ErrNone ELSE ErrIO))]
  /\ pc' = [pc EXCEPT ![w] = "ready"]
  /\ UNCHANGED << schema, accepted, sw, op, alive, aborted, tmp, fin, colVars >>

\* writeManifest, last part: the temp file is renamed over manifest.json.
\* io = FALSE: the rename fails and the temp file is removed.
ManifestWrite(w, io) ==
  /\ pc[w] = "manifest_write" /\ (alive[w] \/ op[w] = "Retry")
  /\ manifest' = IF io THEN loaded[w] ELSE manifest
  /\ loaded' = [loaded EXCEPT ![w] = NoManifest]
  /\ mtmp' = [mtmp EXCEPT ![w] = "none"]
  /\ replaced' = [v \in Writers |->
                    v # w /\ (replaced[v] \/ (io /\ pc[v] \in LoadedPcs))]
  /\ ret' = [ret EXCEPT ![w] = Ret(op[w], AppendErr(w, IF io THEN ErrNone ELSE ErrIO))]
  /\ pc' = [pc EXCEPT ![w] = "ready"]
  /\ UNCHANGED << schema, accepted, sw, op, alive, aborted, tmp, fin, colVars >>

\* the positions of a writer inside appendManifestItem
AppendPcs == {"manifest_load", "manifest_create", "manifest_encode", "manifest_write"}

\* The caller appends the item of a writer whose rename succeeded once more
\* (after a manifest-update-failed error, or after the process was stopped).
Retry(w) ==
  /\ sw[w].committed
  /\ \/ pc[w] = "ready"
     \/ ~alive[w] /\ pc[w] \in AppendPcs /\ op[w] = "Commit"
  /\ pc' = [pc EXCEPT ![w] = "manifest_load"]
  /\ op' = [op EXCEPT ![w] = "Retry"]
  /\ loaded' = [loaded EXCEPT ![w] = NoManifest]
  /\ UNCHANGED << schema, accepted, sw, alive, ret, aborted, tmp, fin, manifest, mtmp, replaced, colVars >>

\* The process running w is stopped (killed) between two steps.
Stop(w) ==
  /\ alive[w] /\ pc[w] # "none"
  /\ alive' = [alive EXCEPT ![w] = FALSE]
  /\ UNCHANGED << schema, accepted, sw, pc, op, ret, aborted, tmp, fin, manifest, loaded, mtmp, replaced, colVars >>

\* Inputs of the model.  Faults (disk errors, a stop of the process, invalid
\* records), Abort and the caller's retry of a manifest append are exercised
\* on the writers of FaultyWriters; the other writers run concurrently: they
\* open, write valid records and commit on a working disk.  Segment ids are interchangeable, so the first
\* writer is always opened for the first id.
FaultyWriters == {1}
IoChoices(w) == IF w \in FaultyWriters THEN BOOLEAN ELSE {TRUE}
ValidValue(col) == IF col.type = TypeString THEN Str(1) ELSE I64(1)
RecordsFor(w) ==
  IF w \in FaultyWriters THEN [Cols -> RecordValues]
  ELSE {[i \in Cols |-> ValidValue(schema[i])]}
IdsFor(w) == IF w = 1 THEN {1} ELSE SegIds
FailAtFor(w) == IF w \in FaultyWriters THEN 0..NumCols ELSE {0}

Next ==
  \/ \E w \in Writers : \E id \in IdsFor(w), mkdirOk \in IoChoices(w), failAt \in FailAtFor(w) :
       NewSegmentWriter(w, id, mkdirOk, failAt)
  \/ \E w \in Writers : \E record \in RecordsFor(w) : WriteRecord(w, record)
  \/ \E w \in FaultyWriters : Abort(w)
  \/ \E w \in Writers : \E closeOk \in [Cols -> IoChoices(w)] : CommitClose(w, closeOk)
  \/ \E w \in Writers : \E io \in IoChoices(w) : CommitMeta(w, io)
  \/ \E w \in Writers : \E io \in IoChoices(w) : CommitRename(w, io)
  \/ \E w \in Writers : \E io \in IoChoices(w) : ManifestLoad(w, io)
  \/ \E w \in Writers : \E io \in IoChoices(w) : ManifestCreate(w, io)
  \/ \E w \in Writers : \E io \in IoChoices(w) : ManifestEncode(w, io)
  \/ \E w \in Writers : \E io \in IoChoices(w) : ManifestWrite(w, io)
  \/ \E w \in FaultyWriters : Retry(w)
  \/ \E w \in FaultyWriters : Stop(w)

Spec == Init /\ [][Next]_vars

----------------------------------------------------------------------------
(* The manifest append on its own: one caller appends arbitrary items, one
   call after the other *)

\* appendManifestItem(path, item) on the manifest file `file`.  failAt: 0 no
\* fault, 1 loadManifest fails, 2..4 writeManifest fails (creating the temp
\* file, encoding and closing it, renaming it).
appendManifestItem(file, item, failAt) ==
  IF failAt = 1 THEN [file |-> file, err |-> ErrIO]
  ELSE LET m == loadManifest(file)
       IN IF HasDuplicate(m.segments, item) THEN [file |-> file, err |-> ErrDuplicate]
          ELSE IF failAt # 0 THEN [file |-> file, err |-> ErrIO]
          ELSE [file |-> [m EXCEPT !.segments = Append(@, item)], err |-> ErrNone]

Items == {ManifestItem(id, RelPath(p), 0) : id \in 1..MaxItemId, p \in 1..MaxItemId}

AppendFaults == 0..4

\* one call; its result is kept as the last result of caller 1
AppendCall(item, failAt) ==
  LET r == appendManifestItem(manifest, item, failAt)
  IN /\ manifest' = r.file
     /\ ret' = [ret EXCEPT ![1] = Ret("Append", r.err)]
     /\ UNCHANGED << schema, accepted, sw, pc, op, alive, aborted, tmp, fin, loaded, mtmp, replaced,
                     colVars >>

AppendNext == \E item \in Items, failAt \in AppendFaults : AppendCall(item, failAt)

\* no segment writer exists; the schema plays no part
AppendInit == Init /\ schema[1].type = TypeInt64

AppendSpec == AppendInit /\ [][AppendNext]_vars

----------------------------------------------------------------------------
(* A column writer on its own: any sequence of Write and Close calls on one
   writer of any type, up to the first call that fails on the disk *)

ColumnTypes == {TypeInt64, TypeFloat64, TypeBool, TypeString, TypeTimestamp}

\* the values handed to Write on a writer of a type: null, values of the
\* type and a value of another type
WriteValues(type) ==
  CASE type = TypeInt64 -> {Nil, I64(1), Str(1)}
    [] type = TypeFloat64 -> {Nil, F64(1), NaN, Str(1)}
    [] type = TypeBool -> {Nil, Bool(TRUE), Bool(FALSE), I64(1)}
    [] type = TypeString -> {Nil, Str(1), I64(1)}
    [] type = TypeTimestamp -> {Nil, Time(1), Str(1)}

ColumnInit ==
  /\ SegInit
  /\ schema[1].type = TypeInt64
  /\ cw \in {NewWriter(type) : type \in ColumnTypes}
  /\ cret = Ret("none", ErrNone)
  /\ written = << >>
  /\ ioFailed = FALSE

\* cw.Write(value).  A writer one of whose Write calls failed on the disk is
\* not used any further; a closed writer may be called whatever Close returned.
ColWriteCall(value, io) ==
  /\ ~ioFailed \/ cw.closed
  /\ LET r == Write(cw, value, io)
     IN /\ cw' = r.w
        /\ cret' = Ret("Write", r.err)
        /\ written' = IF r.err = ErrNone THEN Append(written, value) ELSE written
        /\ ioFailed' = (ioFailed \/ r.err = ErrIO)
  /\ UNCHANGED segVars

ColWrite(value, io) ==
  /\ RecordCount(cw) < MaxWrites
  /\ ColWriteCall(value, io)

\* cw.Close().  io = FALSE: the flush or a file close fails.
ColClose(io) ==
  /\ ~ioFailed \/ cw.closed
  /\ LET r == Close(cw, io)
     IN /\ cw' = r.w
        /\ cret' = Ret("Close", r.err)
        /\ ioFailed' = (ioFailed \/ r.err = ErrIO)
  /\ UNCHANGED << written, segVars >>

ColumnNext ==
  \/ \E value \in WriteValues(cw.type), io \in IoOutcomes : ColWrite(value, io)
  \/ \E io \in BOOLEAN : ColClose(io)

ColumnSpec == ColumnInit /\ [][ColumnNext]_vars

----------------------------------------------------------------------------
(* A column writer on its own, given few writes of many different values *)

\* null and several values of the type: integers below and above zero, the
\* empty string Str(0) and two other strings, instants and absolute integers
StatValues(type) ==
  CASE type = TypeInt64 -> {Nil, I64(-3), I64(2), I64(10)}
    [] type = TypeFloat64 -> {Nil, F64(-3), F64(2), F64(10)}
    [] type = TypeBool -> {Nil, Bool(TRUE), Bool(FALSE)}
    [] type = TypeString -> {Nil, Str(0), Str(1), Str(2)}
    [] type = TypeTimestamp -> {Nil, Time(1000), Time(2000), I64(5), I64(-3)}

StatWrite(value, io) ==
  /\ RecordCount(cw) < MaxStatWrites
  /\ ColWriteCall(value, io)

StatsNext ==
  \/ \E value \in StatValues(cw.type), io \in IoOutcomes : StatWrite(value, io)
  \/ \E io \in BOOLEAN : ColClose(io)

StatsSpec == ColumnInit /\ [][StatsNext]_vars

----------------------------------------------------------------------------
(* Vocabulary of the properties *)

\* the steps of the model that are a call of WriteRecord / of Commit on w
NewSegmentWriterStep(w, id) ==
  \E mkdirOk \in IoChoices(w), failAt \in FailAtFor(w) : NewSegmentWriter(w, id, mkdirOk, failAt)
\* (each starts with conditions that every such step satisfies and that are
\* cheap to evaluate)
OthersUntouched(w) ==
  \A v \in Writers \ {w} : pc'[v] = pc[v] /\ ret'[v] = ret[v] /\ sw'[v] = sw[v]
WriteRecordStep(w) ==
  /\ pc[w] = "ready" /\ ret'[w].op = "WriteRecord" /\ OthersUntouched(w)
  /\ \E record \in RecordsFor(w) : WriteRecord(w, record)
CommitCallStep(w) ==
  /\ pc[w] = "ready" /\ (pc'[w] = "commit_meta" \/ ret'[w].op = "Commit")
  /\ OthersUntouched(w)
  /\ \E closeOk \in [Cols -> IoChoices(w)] : CommitClose(w, closeOk)
CommitMetaStep(w) == \E io \in IoChoices(w) : CommitMeta(w, io)
CommitRenameStep(w) == \E io \in IoChoices(w) : CommitRename(w, io)
ManifestLoadStep(w) == \E io \in IoChoices(w) : ManifestLoad(w, io)
ManifestCreateStep(w) == \E io \in IoChoices(w) : ManifestCreate(w, io)
ManifestEncodeStep(w) == \E io \in IoChoices(w) : ManifestEncode(w, io)
ManifestWriteStep(w) == \E io \in IoChoices(w) : ManifestWrite(w, io)
\* a step of appendManifestItem on behalf of w
AppendStep(w) ==
  ManifestLoadStep(w) \/ ManifestCreateStep(w) \/ ManifestEncodeStep(w) \/ ManifestWriteStep(w)

\* a step of a Commit call on w that comes before its rename
BeforeRenameStep(w) == (CommitCallStep(w) /\ ~sw[w].committed) \/ CommitMetaStep(w)
\* a step in which the manifest append of a Commit call on w fails
AppendFailsStep(w) ==
  /\ AppendStep(w)
  /\ op[w] = "Commit" /\ pc'[w] = "ready" /\ ret'[w].err # ErrNone

CountEntries(segments, id) == Cardinality({i \in 1..Len(segments) : segments[i].id = id})

\* the column writers whose files directory d holds
ColumnFiles(d) == sw[d.creator].writers

\* the number of records the value (or id) file of a column writer holds,
\* pending bits of a Bool writer included
ValueSlots(wr) ==
  IF wr.type = TypeBool THEN 8 * Len(wr.valuesFile) + wr.valueBitPos
  ELSE Len(wr.valuesFile)

\* directory d holds metadata.json and flushed, closed files of every column
DirComplete(d) ==
  /\ d.exists
  /\ Len(d.meta) = 1
  /\ \A i \in Cols : ColumnFiles(d)[i].closed /\ ~ColumnFiles(d)[i].fopen

HasEntry(id) == \E i \in 1..Len(manifest.segments) : manifest.segments[i].id = id

----------------------------------------------------------------------------
(* C1 - WriteRecord is all-or-nothing: a call either advances every column
   writer's record count and the segment's record_count by exactly one, or
   changes no column writer (no value bytes, no bitmap bits) and not the
   record_count. *)
C1_WriteRecordAllOrNothing ==
  [][\A w \in Writers :
       WriteRecordStep(w) =>
         \/ /\ sw'[w].recordCount = sw[w].recordCount + 1
            /\ \A i \in Cols :
                 RecordCount(sw'[w].writers[i]) = RecordCount(sw[w].writers[i]) + 1
         \/ sw'[w] = sw[w]]_vars

(* C2 - WriteRecord with null for a non-nullable column fails with a null
   violation, does not increment record_count and calls Write on no column
   writer, wherever the non-nullable column stands in the schema. *)
C2_NullViolationWritesNothing ==
  [][\A w \in Writers :
       (WriteRecordStep(w) /\ ret'[w].err = ErrNullViolation) =>
         /\ sw'[w].recordCount = sw[w].recordCount
         /\ sw'[w].writers = sw[w].writers]_vars

(* C3 - Every directory under a final name holds columns that all represent
   exactly the record_count of the segment (the one its metadata.json
   states): each column's value file holds that many slots and each column
   writer counted that many records. *)
C3_CommittedColumnsAligned ==
  \A id \in SegIds :
    fin[id].exists =>
      /\ Len(fin[id].meta) = 1
      /\ \A i \in Cols :
           /\ ValueSlots(ColumnFiles(fin[id])[i]) = fin[id].meta[1].record_count
           /\ RecordCount(ColumnFiles(fin[id])[i]) = fin[id].meta[1].record_count

(* C4 - A directory under a final name is never partially written: it holds
   metadata.json and the flushed and closed files of every column; and a
   writer stopped before its rename has left nothing of its own under the
   final name. *)
C4_FinalDirComplete ==
  /\ \A id \in SegIds : fin[id].exists => DirComplete(fin[id])
  /\ \A w \in Writers :
       (~alive[w] /\ ~sw[w].committed) =>
         \A id \in SegIds : fin[id].exists => fin[id].creator # w

(* C5 - The manifest never contains two entries with the same id, nor two
   entries with the same path. *)
C5_ManifestNoDuplicates ==
  \A i, j \in 1..Len(manifest.segments) :
    i # j => /\ manifest.segments[i].id # manifest.segments[j].id
             /\ manifest.segments[i].path # manifest.segments[j].path

\* two segments are listed and the append of a listed item was rejected
C5_Witness ==
  /\ Len(manifest.segments) = 2
  /\ ret[1] = Ret("Retry", ErrDuplicate)

(* C6 - Committed is terminal: a writer that has renamed stays committed;
   every WriteRecord on it fails with write-to-committed-segment, every
   Commit with already-committed, and neither changes the writer (its
   record_count and column files), a directory or the manifest. *)
C6_CommittedTerminal ==
  [][\A w \in Writers :
       sw[w].committed =>
         /\ sw'[w].committed
         /\ WriteRecordStep(w) =>
              /\ ret'[w] = Ret("WriteRecord", ErrCommitted)
              /\ UNCHANGED << sw, tmp, fin, manifest >>
         /\ CommitCallStep(w) =>
              /\ ret'[w] = Ret("Commit", ErrAlreadyCommitted)
              /\ UNCHANGED << sw, pc, tmp, fin, manifest >>]_vars

\* both calls were made on committed writers and rejected
C6_Witness ==
  /\ sw[1].committed /\ ret[1] = Ret("WriteRecord", ErrCommitted)
  /\ sw[2].committed /\ ret[2] = Ret("Commit", ErrAlreadyCommitted)

(* C7 - Aborted is terminal: after Abort() on an uncommitted writer, every
   WriteRecord fails without incrementing record_count, and no step of a
   later Commit creates a final directory or a manifest entry. *)
C7_AbortedTerminal ==
  [][\A w \in Writers :
       aborted[w] =>
         /\ WriteRecordStep(w) =>
              /\ ret'[w].err # ErrNone
              /\ sw'[w].recordCount = sw[w].recordCount
         /\ (CommitCallStep(w) \/ CommitMetaStep(w) \/ CommitRenameStep(w)
               \/ AppendStep(w)) =>
              /\ fin' = fin
              /\ manifest' = manifest]_vars

(* C8 - A Commit that fails before its rename succeeded returns with the
   temp directory removed, the writer not committed, and no step of the call
   up to there has created a final directory or changed the manifest. *)
C8_FailedCommitCleansUp ==
  [][\A w \in Writers :
       (BeforeRenameStep(w) \/ (CommitRenameStep(w) /\ pc'[w] = "ready")) =>
         /\ fin' = fin
         /\ manifest' = manifest
         /\ pc'[w] = "ready" =>
              /\ ret'[w].op = "Commit" /\ ret'[w].err # ErrNone
              /\ ~tmp'[sw[w].segmentID].exists
              /\ ~sw'[w].committed]_vars

\* a Commit has returned a record count mismatch
C8_Witness ==
  /\ ret[1] = Ret("Commit", ErrMismatch)
  /\ ~sw[1].committed
  /\ ~tmp[1].exists

(* C9 - When the manifest append of Commit fails (after the rename), Commit
   returns manifest-update-failed, the writer is committed, the final
   directory is not touched, and the manifest is as before the append. *)
C9_ManifestFailureKeepsSegment ==
  [][\A w \in Writers :
       /\ (ManifestLoadStep(w) /\ op[w] = "Commit") => manifest' = manifest
       /\ AppendFailsStep(w) =>
            /\ ret'[w] = Ret("Commit", ErrManifestFailed)
            /\ sw'[w].committed
            /\ fin[sw[w].segmentID].exists
            /\ fin' = fin
            /\ manifest' = manifest]_vars

\* Commit has returned manifest-update-failed; the segment is on disk, unlisted
C9_Witness ==
  /\ ret[1] = Ret("Commit", ErrManifestFailed)
  /\ sw[1].committed
  /\ fin[1].exists
  /\ ~HasEntry(1)

(* C10 - A writer stopped between its rename and its manifest append leaves
   the complete final directory and a manifest without its segment; when the
   caller appends the same item again, the append succeeds and adds the item
   once, after all earlier entries. *)
C10_StopBeforeAppend ==
  /\ [](\A w \in Writers :
         (~alive[w] /\ op[w] = "Commit" /\ pc[w] = "manifest_load") =>
           /\ DirComplete(fin[sw[w].segmentID])
           /\ ~HasEntry(sw[w].segmentID))
  /\ [][\A w \in Writers :
         (~alive[w] /\ op[w] = "Retry" /\ ~HasEntry(sw[w].segmentID)) =>
           /\ ManifestLoad(w, TRUE) => pc'[w] = "manifest_create"
           /\ (ManifestWrite(w, TRUE)
                /\ loaded[w].segments = Append(manifest.segments, ItemOf(w))) =>
                /\ ret'[w] = Ret("Retry", ErrNone)
                /\ manifest'.segments = Append(manifest.segments, ItemOf(w))
                /\ CountEntries(manifest'.segments, sw[w].segmentID) = 1]_vars

(* C11 - The temp directory is the mutual-exclusion primitive: a
   NewSegmentWriter for an id whose temp directory exists fails with
   already-exists and changes neither that directory nor the column files in
   it; a construction succeeds only when the temp directory did not exist,
   and then the directory belongs to the new writer. *)
C11_TempDirMutualExclusion ==
  [][\A w \in Writers : \A id \in IdsFor(w) :
       NewSegmentWriterStep(w, id) =>
         /\ tmp[id].exists =>
              /\ ret'[w] = Ret("NewSegmentWriter", ErrExists)
              /\ pc'[w] = "none"
              /\ UNCHANGED << tmp, fin, sw >>
         /\ ret'[w].err = ErrNone =>
              /\ ~tmp[id].exists
              /\ tmp'[id].exists /\ tmp'[id].creator = w]_vars

\* the second construction for id 1 was refused while the first writer is open
C11_Witness ==
  /\ pc[1] = "ready" /\ tmp[1].exists /\ tmp[1].creator = 1
  /\ pc[2] = "none" /\ ret[2] = Ret("NewSegmentWriter", ErrExists)

(* C12 - A writer owns its temp directory exclusively: no Abort, WriteRecord
   or step of Commit of a writer removes, renames or adds a file to a temp
   directory that another writer's construction created. *)
C12_TempDirOwnedByCreator ==
  [][\A w \in Writers :
       (/\ pc[w] # "none"
        /\ tmp[sw[w].segmentID].exists
        /\ tmp[sw[w].segmentID].creator # w
        /\ (Abort(w) \/ WriteRecordStep(w) \/ CommitCallStep(w)
              \/ CommitMetaStep(w) \/ CommitRenameStep(w))) =>
         /\ tmp'[sw[w].segmentID] = tmp[sw[w].segmentID]
         /\ fin' = fin]_vars

(* C13 - Abort is idempotent: every call returns without error and leaves
   no temp directory, and a call made when the writer's last call was an
   Abort and the temp directory is still absent changes nothing at all. *)
C13_AbortIdempotent ==
  [][\A w \in Writers :
       Abort(w) =>
         /\ ret'[w] = Ret("Abort", ErrNone)
         /\ ~tmp'[sw[w].segmentID].exists
         /\ UNCHANGED << sw, pc, fin, manifest >>
         /\ (ret[w] = Ret("Abort", ErrNone) /\ ~tmp[sw[w].segmentID].exists) =>
              UNCHANGED vars]_vars

\* Abort has returned on an uncommitted writer and can be called again
C13_Witness ==
  /\ pc[1] = "ready" /\ alive[1] /\ aborted[1]
  /\ ret[1] = Ret("Abort", ErrNone)
  /\ ~tmp[sw[1].segmentID].exists

(* C14 - Abort on a committed writer changes neither the final directory,
   nor a file in it, nor the manifest. *)
C14_AbortAfterCommitKeepsSegment ==
  [][\A w \in Writers :
       (Abort(w) /\ sw[w].committed) =>
         /\ ret'[w] = Ret("Abort", ErrNone)
         /\ UNCHANGED << fin, sw, manifest >>]_vars

\* Abort has returned on a committed writer whose segment is listed
C14_Witness ==
  /\ sw[1].committed /\ ret[1] = Ret("Abort", ErrNone)
  /\ fin[1].exists /\ fin[1].creator = 1
  /\ HasEntry(1)

(* C15 - Committed segments are immutable: once a final directory exists, no
   step changes it or the column files in it; a Commit that reaches its
   rename while the final directory exists fails, is not committed, leaves
   no temp directory and changes neither the final directory nor the
   manifest. *)
C15_CommittedImmutable ==
  [][/\ \A id \in SegIds :
          fin[id].exists =>
            /\ fin'[id] = fin[id]
            /\ sw'[fin[id].creator].writers = sw[fin[id].creator].writers
     /\ \A w \in Writers :
          (CommitRenameStep(w) /\ fin[sw[w].segmentID].exists) =>
            /\ ret'[w].op = "Commit" /\ ret'[w].err # ErrNone
            /\ ~sw'[w].committed
            /\ ~tmp'[sw[w].segmentID].exists
            /\ manifest' = manifest]_vars

(* C16 - A reader of manifest.json sees the complete manifest of before an
   append or the complete one of after it: the file changes only in the
   rename of a temp file that was written whole and closed, and then holds
   the document that append built (never an empty or partial one); the other
   steps of an append, failing or stopped ones included, leave the file as it
   was. *)
C16_ManifestReplacedAtomically ==
  /\ [](manifest.exists =>
          manifest.version = manifestVersion /\ Len(manifest.segments) >= 1)
  /\ [][manifest' # manifest =>
          \E w \in Writers :
            /\ ManifestWriteStep(w)
            /\ mtmp[w] = "whole"
            /\ manifest' = loaded[w]
            /\ loaded[w].segments[Len(loaded[w].segments)] = ItemOf(w)]_vars

\* an append was stopped with its temp file half written; manifest.json holds
\* the other writer's complete manifest
C16_Witness ==
  /\ ~alive[1] /\ pc[1] = "manifest_encode" /\ mtmp[1] = "partial"
  /\ manifest.exists /\ Len(manifest.segments) = 1
  /\ ~HasEntry(sw[1].segmentID)

(* C17 (as stated) - Every successful append yields the previous segments
   list with the new item added at the end. *)
C17_AppendOnlyOrdered ==
  [][\A w \in Writers :
       (ManifestWriteStep(w) /\ ret'[w].err = ErrNone) =>
         manifest'.segments = Append(manifest.segments, ItemOf(w))]_vars

(* C17 (amended) - Every successful append during which no other append
   replaced manifest.json yields the previous segments list with the new item
   added at the end, every earlier entry unchanged and in its position. *)
C17_SerializedAppendOrdered ==
  [][\A w \in Writers :
       (ManifestWriteStep(w) /\ ret'[w].err = ErrNone /\ ~replaced[w]) =>
         manifest'.segments = Append(manifest.segments, ItemOf(w))]_vars

\* two appends, one after the other, have listed both segments in call order
C17_Witness ==
  /\ Len(manifest.segments) = 2
  /\ manifest.segments[2] = ItemOf(1)
  /\ ret[1] = Ret("Commit", ErrNone) /\ ret[2] = Ret("Commit", ErrNone)
  /\ ~replaced[1] /\ ~replaced[2]

\* the manifest lists an entry with this id / with this path
ListsId(id) == \E i \in 1..Len(manifest.segments) : manifest.segments[i].id = id
ListsPath(path) == \E i \in 1..Len(manifest.segments) : manifest.segments[i].path = path

(* C18 - An append whose item has the id of a listed entry, or the path of a
   listed entry, is rejected with the duplicate-segment-identity error and
   leaves manifest.json as it was, whatever would fail in writing it. *)
C18_DuplicateAppendRejected ==
  [][\A item \in Items :
       (/\ ListsId(item.id) \/ ListsPath(item.path)
        /\ \E failAt \in AppendFaults \ {1} : AppendCall(item, failAt)) =>
         /\ ret'[1] = Ret("Append", ErrDuplicate)
         /\ manifest' = manifest]_vars

\* entries whose ids and paths are paired crosswise are listed, and an append
\* was rejected as a duplicate
C18_Witness ==
  /\ manifest.segments = << ManifestItem(1, RelPath(2), 0), ManifestItem(2, RelPath(1), 0) >>
  /\ ret[1] = Ret("Append", ErrDuplicate)

(* C19 - For every column writer type and every sequence of Write calls,
   RecordCount() is the number of Write calls that returned success. *)
C19_RecordCountCountsSuccesses ==
  RecordCount(cw) = Len(written)

\* bit k (0 = lowest) of byte b
BitOf(b, k) == (b \div (2 ^ k)) % 2

CeilDiv(n, d) == (n + d - 1) \div d

\* the null bitmap file holds the bits of `values`, MSB-first, zero padded
BitmapMatches(file, values) ==
  /\ Len(file) = CeilDiv(Len(values), 8)
  /\ \A i \in 0..(8 * Len(file) - 1) :
       BitOf(file[(i \div 8) + 1], 7 - (i % 8)) =
         IF i < Len(values) /\ values[i + 1] # Nil THEN 1 ELSE 0

(* C20 - After n successful writes and a successful Close (no call having
   failed on the disk), the null bitmap file has ceil(n/8) bytes, bit
   (7 - i mod 8) of byte (i div 8) is 1 iff the i-th written value was
   non-null, and the unused low-order bits of the last byte are 0. *)
C20_NullBitmapLayout ==
  (cw.closed /\ ~cw.fopen /\ ~ioFailed) => BitmapMatches(cw.nullsFile, written)

\* nine values, nulls and non-nulls, were written and the writer was closed
C20_Witness ==
  /\ cw.closed /\ ~cw.fopen /\ ~ioFailed
  /\ Len(written) = 9
  /\ written[1] = Nil /\ written[2] # Nil /\ written[9] # Nil
  /\ Len(cw.nullsFile) = 2

----------------------------------------------------------------------------
(* Column writers: rejected values and the closed state *)

\* the kinds of non-null value a writer of a type takes
Accepts(type) ==
  CASE type = TypeInt64 -> {"int64"}
    [] type = TypeFloat64 -> {"float64", "nan"}
    [] type = TypeBool -> {"bool"}
    [] type = TypeString -> {"string"}
    [] type = TypeTimestamp -> {"time", "int64"}

Mismatched(type, value) == value.k \notin (Accepts(type) \cup {"nil"})

(* C21 - A Write, on an open writer, of a value whose type the column does
   not take returns the type-mismatch error and changes nothing of the writer
   (counts, min/max, dictionary, bitmap cursor, files); a valid Write that
   follows it succeeds and is counted. *)
C21_TypeMismatchLeavesWriter ==
  [][\A value \in WriteValues(cw.type) :
       /\ (/\ ~cw.closed /\ Mismatched(cw.type, value)
           /\ \E io \in IoOutcomes : ColWrite(value, io)) =>
            /\ cret' = Ret("Write", ErrTypeMismatch)
            /\ cw' = cw /\ written' = written
       /\ (/\ ~cw.closed /\ cret = Ret("Write", ErrTypeMismatch)
           /\ ~Mismatched(cw.type, value) /\ value # NaN
           /\ ColWrite(value, IoOk)) =>
            /\ cret' = Ret("Write", ErrNone)
            /\ RecordCount(cw') = RecordCount(cw) + 1]_vars

\* a mismatched value was just rejected by a writer that holds two records,
\* one of them null, with a bit pending in its bitmap byte
C21_Witness ==
  /\ cret = Ret("Write", ErrTypeMismatch)
  /\ ~cw.closed /\ RecordCount(cw) = 2 /\ NullCount(cw) = 1 /\ cw.nullBit = 2

(* C22 - A Write of NaN on an open Float64 writer returns the
   disallowed-value error and changes nothing of the writer: no bit is added
   to the null bitmap, no bytes to the value file, and record count, null
   count and min/max stay; a valid Write that follows succeeds.  No NaN is
   ever among the values a Float64 writer has written. *)
C22_NaNRejected ==
  /\ [](\A i \in 1..Len(written) : written[i] # NaN)
  /\ [][/\ (/\ cw.type = TypeFloat64 /\ ~cw.closed
             /\ \E io \in IoOutcomes : ColWrite(NaN, io)) =>
              /\ cret' = Ret("Write", ErrNaN)
              /\ cw' = cw /\ written' = written
        /\ (/\ cw.type = TypeFloat64 /\ ~cw.closed /\ cret = Ret("Write", ErrNaN)
            /\ ColWrite(F64(1), IoOk)) =>
              /\ cret' = Ret("Write", ErrNone)
              /\ RecordCount(cw') = RecordCount(cw) + 1]_vars

\* NaN was just rejected by a Float64 writer that holds a value and a null
C22_Witness ==
  /\ cw.type = TypeFloat64 /\ ~cw.closed
  /\ cret = Ret("Write", ErrNaN)
  /\ RecordCount(cw) = 2 /\ NullCount(cw) = 1 /\ cw.hasValue

(* C23 - After Close has been called on a column writer, every Write, of any
   value, returns the closed-writer error and changes neither the record
   count nor the files, and every further Close returns the already-closed
   error. *)
C23_ClosedTerminal ==
  [][cw.closed =>
       /\ (\E value \in WriteValues(cw.type), io \in IoOutcomes : ColWrite(value, io)) =>
            /\ cret' = Ret("Write", ErrClosedWriter)
            /\ cw' = cw
       /\ (\E io \in BOOLEAN : ColClose(io)) =>
            /\ cret' = Ret("Close", ErrAlreadyClosed)
            /\ cw' = cw]_vars

----------------------------------------------------------------------------
(* Column writers: dictionary, statistics and encodings *)

\* the distinct non-null values of a sequence of written values, in the order
\* of their first occurrence
RECURSIVE FirstSeen(_)
FirstSeen(values) ==
  IF values = << >> THEN << >>
  ELSE LET f == FirstSeen(SubSeq(values, 1, Len(values) - 1))
           v == values[Len(values)]
       IN IF v = Nil \/ \E i \in 1..Len(f) : f[i] = v.n THEN f ELSE Append(f, v.n)

\* the position of string s in a sequence of distinct strings
PosIn(f, s) == CHOOSE i \in 1..Len(f) : f[i] = s

(* C24 - For every sequence of writes on a String writer: the ids file holds
   one id per written value, 0 for a null and, for a string (the empty one
   included), 1 + the number of distinct strings written before its first
   occurrence; so no string has id 0, distinct strings have distinct ids and
   one string has one id.  No call having failed on the disk, DictionarySize()
   is the number of distinct strings written, and after Close the dictionary
   file lists them in id order. *)
C24_DictionaryIds ==
  cw.type = TypeString =>
    /\ Len(cw.valuesFile) = Len(written)
    /\ \A i \in 1..Len(written) :
         cw.valuesFile[i] = IF written[i] = Nil THEN 0
                            ELSE PosIn(FirstSeen(written), written[i].n)
    /\ \A i, j \in 1..Len(written) :
         (written[i] # Nil /\ written[j] # Nil) =>
           /\ cw.valuesFile[i] # 0
           /\ (cw.valuesFile[i] = cw.valuesFile[j]) <=> (written[i] = written[j])
    /\ ~ioFailed =>
         /\ DictionarySize(cw) = Len(FirstSeen(written))
         /\ (cw.closed /\ ~cw.fopen) => cw.dictFile = FirstSeen(written)

\* null, a string, the empty string and the first string again were written
\* and the writer was closed
C24_Witness ==
  /\ cw.type = TypeString /\ cw.closed /\ ~cw.fopen /\ ~ioFailed
  /\ written = << Nil, Str(1), Str(0), Str(1) >>
  /\ cw.valuesFile = << 0, 1, 2, 1 >>
  /\ cw.dictFile = << 1, 0 >>

\* the integer a written value stands for
Stored(v) == IF v.k = "time" THEN UnixNano(v) ELSE v.n

\* the integers of the non-null values of a sequence of written values
NonNulls(values) == {Stored(values[i]) : i \in {j \in 1..Len(values) : values[j] # Nil}}

Smallest(S) == CHOOSE x \in S : \A y \in S : x <= y
Largest(S) == CHOOSE x \in S : \A y \in S : x >= y

(* C25 - For an Int64 or Timestamp writer that has written at least one
   non-null value, Min() is the smallest and Max() the largest of the non-null
   values written; nulls and their 0 placeholders have no part in them. *)
C25_MinMaxOfNonNulls ==
  (cw.type \in {TypeInt64, TypeTimestamp} /\ NonNulls(written) # {}) =>
    /\ Min(cw) = Smallest(NonNulls(written))
    /\ Max(cw) = Largest(NonNulls(written))

\* 10, null, -3 were written to an Int64 writer
C25_Witness ==
  /\ cw.type = TypeInt64
  /\ written = << I64(10), Nil, I64(-3) >>
  /\ Min(cw) = -3 /\ Max(cw) = 10

\* the metadata entry writeMetadata makes of the column writer on its own
MetaOfColumn == ColumnMeta(Column("c", cw.type, TRUE), cw)

(* C26 - The metadata entry of a column carries min_value and max_value iff
   the column type is Int64, Float64 or Timestamp and null_count <
   record_count, which, no call having failed on the disk, is to say that a
   non-null value was written; a column with no records or only nulls, and a
   String or Bool column, has neither; when present they are the writer's
   Min() and Max(). *)
C26_MinMaxPresence ==
  LET m == MetaOfColumn
      numeric == cw.type \in {TypeInt64, TypeFloat64, TypeTimestamp}
  IN /\ (m.min_value # << >>) <=> (numeric /\ m.null_count < m.record_count)
     /\ (m.max_value # << >>) <=> (m.min_value # << >>)
     /\ (m.min_value # << >>) => (m.min_value = << Min(cw) >> /\ m.max_value = << Max(cw) >>)
     /\ ~ioFailed =>
          /\ m.record_count = Len(written)
          /\ (m.null_count < m.record_count) <=> (NonNulls(written) # {})
          /\ (m.min_value # << >>) =>
               /\ m.min_value = << Smallest(NonNulls(written)) >>
               /\ m.max_value = << Largest(NonNulls(written)) >>

\* null, -3 and 10 were written to a Float64 writer, now closed: its entry
\* carries -3 and 10
C26_Witness ==
  /\ cw.type = TypeFloat64 /\ cw.closed /\ ~cw.fopen /\ ~ioFailed
  /\ written = << Nil, F64(-3), F64(10) >>
  /\ MetaOfColumn.min_value = << -3 >> /\ MetaOfColumn.max_value = << 10 >>

\* the file holds the bits of the sequence `bits`, 8 per byte, MSB-first,
\* the last byte zero padded
PackedMatches(file, bits) ==
  /\ Len(file) = CeilDiv(Len(bits), 8)
  /\ \A i \in 0..(8 * Len(file) - 1) :
       BitOf(file[(i \div 8) + 1], 7 - (i % 8)) = IF i < Len(bits) THEN bits[i + 1] ELSE 0

(* C27 - After n successful writes and a successful Close of a Bool writer
   (no call having failed on the disk) the value file has ceil(n/8) bytes,
   bit (7 - i mod 8) of byte (i div 8) is 1 iff the i-th written value was
   true, a null is a 0 bit in the value file and in the null bitmap, and the
   padding bits of the last byte of both files are 0. *)
C27_BoolBitPacking ==
  (cw.type = TypeBool /\ cw.closed /\ ~cw.fopen /\ ~ioFailed) =>
    /\ PackedMatches(cw.valuesFile,
                     [i \in 1..Len(written) |-> IF written[i] = Bool(TRUE) THEN 1 ELSE 0])
    /\ PackedMatches(cw.nullsFile,
                     [i \in 1..Len(written) |-> IF written[i] = Nil THEN 0 ELSE 1])

\* true, false, null, true: value byte 10010000, null byte 11010000
C27_Witness ==
  /\ cw.type = TypeBool /\ cw.closed /\ ~cw.fopen /\ ~ioFailed
  /\ written = << Bool(TRUE), Bool(FALSE), Nil, Bool(TRUE) >>
  /\ cw.valuesFile = << 144 >> /\ cw.nullsFile = << 208 >>
  /\ RecordCount(cw) = 4 /\ NullCount(cw) = 1

\* the written values that are wall-clock instants
Instants(values) == {values[i] : i \in {j \in 1..Len(values) : values[j].k = "time"}}

(* C28 - The Timestamp writer stores nanoseconds since the Unix epoch: the
   value file holds, per written value, the nanosecond count of an instant,
   an absolute int64 unchanged, and the 0 placeholder of a null, which is
   counted as a null; Min() and Max() are the smallest and largest of the
   stored integers. *)
C28_TimestampNanoseconds ==
  cw.type = TypeTimestamp =>
    /\ Len(cw.valuesFile) = Len(written)
    /\ \A i \in 1..Len(written) :
         cw.valuesFile[i] =
           CASE written[i].k = "nil" -> 0
             [] written[i].k = "time" -> written[i].n * NanosPerMilli
             [] written[i].k = "int64" -> written[i].n
    /\ ~ioFailed =>
         NullCount(cw) = Cardinality({i \in 1..Len(written) : written[i] = Nil})
    /\ NonNulls(written) # {} =>
         /\ Min(cw) = Smallest(NonNulls(written))
         /\ Max(cw) = Largest(NonNulls(written))

\* the instant 1000 ms, null and the absolute integer 5 were written
C28_Witness ==
  /\ cw.type = TypeTimestamp
  /\ written = << Time(1000), Nil, I64(5) >>
  /\ cw.valuesFile = << 1000000000, 0, 5 >>
  /\ Min(cw) = 5 /\ Max(cw) = 1000000000 /\ NullCount(cw) = 1

(* C29 - A wall-clock instant written to a Timestamp column is stored as its
   milliseconds since the Unix epoch, and the min_value and max_value of the
   column's metadata entry are those millisecond values (instants 1000 ms and
   2000 ms give min_value 1000 and max_value 2000), no call having failed on
   the disk. *)
C29_InstantStoredAsMillis ==
  cw.type = TypeTimestamp =>
    /\ \A i \in 1..Len(written) :
         written[i].k = "time" => cw.valuesFile[i] = UnixMilli(written[i])
    /\ (/\ ~ioFailed /\ Instants(written) # {}
        /\ NonNulls(written) = {Stored(v) : v \in Instants(written)}) =>
         /\ MetaOfColumn.min_value = << Smallest({UnixMilli(v) : v \in Instants(written)}) >>
         /\ MetaOfColumn.max_value = << Largest({UnixMilli(v) : v \in Instants(written)}) >>

----------------------------------------------------------------------------
(* Layout of a committed segment *)

\* the step in which a Commit call on w returns success
CommitSucceedsStep(w) ==
  /\ pc[w] = "manifest_write" /\ op[w] = "Commit"
  /\ ret'[w] = Ret("Commit", ErrNone)
  /\ ManifestWriteStep(w)

\* "segments/seg_00000N" for a one-digit N
SegmentsSlashSeg(id) == << "segments", "/", "seg_", 0, 0, 0, 0, 0, id >>

\* where the manifest is, and what the item path is, for a base directory
\* named "segments" and for one named otherwise
ManifestPlacement ==
  /\ manifestPathForSegmentsDir(BasePath) = << << "data" >>, << "manifest.json" >> >>
  /\ manifestPathForSegmentsDir(<< << "data" >>, << "store" >> >>) =
       << << "data" >>, << "store" >>, << "manifest.json" >> >>
  /\ \A id \in SegIds :
       /\ ItemPath(BasePath, id) = SegmentsSlashSeg(id)
       /\ ItemPath(<< << "data" >>, << "store" >> >>, id) = SubSeq(SegmentsSlashSeg(id), 3, 9)

(* C30 - A Commit of segment id N holding k records that returns success
   leaves the directory seg_NNNNNN with a metadata.json of segment_id N and
   record_count k, and adds exactly one entry, {N, "segments/seg_NNNNNN", k},
   to manifest.json, which is beside a base directory named "segments" and
   inside a base directory named otherwise. *)
C30_CommittedSegmentLayout ==
  [][\A w \in Writers :
       CommitSucceedsStep(w) =>
         LET id == sw[w].segmentID
             k == sw[w].recordCount
         IN /\ fin'[id].exists
            /\ fin'[id].meta = << SegmentMetadata(w) >>
            /\ fin'[id].meta[1].segment_id = id
            /\ fin'[id].meta[1].record_count = k
            /\ manifest'.segments =
                 Append(manifest.segments, ManifestItem(id, SegmentsSlashSeg(id), k))
            /\ CountEntries(manifest'.segments, id) = 1
            /\ ManifestPlacement]_vars

----------------------------------------------------------------------------
(* Commit and construction: failures *)

\* the columns whose Close fails in this Commit call on w: the writer was
\* closed before, or its files are still open after the call
CloseFailedCols(w) ==
  {i \in Cols : sw[w].writers[i].closed \/ sw'[w].writers[i].fopen}

(* C31 - A Commit call on an uncommitted writer calls Close on every column
   writer, also on those after one whose Close failed; if a Close failed the
   call removes the temp directory, renames nothing, leaves the manifest and
   returns the error of the first column in schema order whose Close failed. *)
C31_BestEffortClose ==
  [][\A w \in Writers :
       (CommitCallStep(w) /\ ~sw[w].committed) =>
         LET failed == CloseFailedCols(w)
             first == CHOOSE i \in failed : \A j \in failed : i <= j
         IN /\ \A i \in Cols :
                 /\ sw'[w].writers[i].closed
                 /\ ~sw[w].writers[i].closed =>
                      (sw'[w].writers[i].fopen \/ sw'[w].writers[i] =
                         Close(sw[w].writers[i], TRUE).w)
            /\ failed = {} => pc'[w] = "commit_meta"
            /\ failed # {} =>
                 /\ pc'[w] = "ready"
                 /\ ret'[w] = Ret("Commit",
                                  CloseErr(schema[first],
                                           IF sw[w].writers[first].closed
                                             THEN ErrAlreadyClosed ELSE ErrIO))
                 /\ ~tmp'[sw[w].segmentID].exists
                 /\ fin' = fin /\ manifest' = manifest
                 /\ ~sw'[w].committed]_vars

\* the Close of the first column failed on the disk, the second column was
\* closed and flushed all the same, and Commit returned the first error
C31_Witness ==
  /\ ret[1] = Ret("Commit", CloseErr(schema[1], ErrIO))
  /\ sw[1].writers[1].closed /\ sw[1].writers[1].fopen
  /\ sw[1].writers[2].closed /\ ~sw[1].writers[2].fopen
  /\ sw[1].recordCount = 1
  /\ ~tmp[1].exists /\ ~fin[1].exists

(* C32 - When NewSegmentWriter has made the temp directory and making the
   writer of a schema column fails, every column writer made before it is
   closed, the temp directory is removed, the error is returned and no
   writer object results; the call leaves no temp directory and makes no
   final directory. *)
C32_ConstructorCleansUp ==
  [][\A w \in Writers, id \in SegIds, failAt \in Cols :
       (~tmp[id].exists /\ NewSegmentWriter(w, id, TRUE, failAt)) =>
         /\ ret'[w].op = "NewSegmentWriter" /\ ret'[w].err # ErrNone
         /\ pc'[w] = "none"
         /\ Len(sw'[w].writers) = failAt - 1
         /\ \A j \in 1..(failAt - 1) :
              sw'[w].writers[j].closed /\ ~sw'[w].writers[j].fopen
         /\ ~tmp'[id].exists
         /\ fin' = fin /\ manifest' = manifest]_vars

\* making the writer of the second column failed: the writer of the first
\* was closed, and neither directory of the segment exists
C32_Witness ==
  /\ pc[1] = "none" /\ ret[1] = Ret("NewSegmentWriter", ErrIO)
  /\ Len(sw[1].writers) = 1
  /\ sw[1].writers[1].closed /\ ~sw[1].writers[1].fopen
  /\ ~tmp[1].exists /\ ~fin[1].exists

----------------------------------------------------------------------------
(* Committed segments and the records that were accepted *)

\* the values a sequence of records supplies for column i
ColumnOf(records, i) == [k \in 1..Len(records) |-> records[k][i]]

\* slot k of the value (or id) file of the closed column writer wr holds
\* the value v: the placeholder 0 for a null, the id of the dictionary entry
\* of a string, the integer itself otherwise
SlotHolds(wr, k, v) ==
  IF isNilValue(v) THEN wr.valuesFile[k] = 0
  ELSE IF wr.type = TypeString
    THEN /\ wr.valuesFile[k] \in 1..Len(wr.dictFile)
         /\ wr.dictFile[wr.valuesFile[k]] = v.n
    ELSE wr.valuesFile[k] = Stored(v)

\* the writer whose Commit published segment id
Committer(w, id) == sw[w].committed /\ sw[w].segmentID = id /\ fin[id].exists

(* C33 - Position alignment in every committed segment: the record_count of
   its metadata.json is the number of WriteRecord calls that returned
   success on the committing writer, and every column holds exactly that
   many slots, slot i and bit i of the null bitmap holding what the i-th
   successful call supplied for the column, in call order; values of failed
   calls occupy no slot. *)
C33_PositionAlignment ==
  \A id \in SegIds, w \in Writers :
    Committer(w, id) =>
      /\ Len(fin[id].meta) = 1
      /\ fin[id].meta[1].record_count = Len(accepted[w])
      /\ \A i \in Cols :
           LET wr == ColumnFiles(fin[id])[i]
               values == ColumnOf(accepted[w], i)
           IN /\ wr.closed /\ ~wr.fopen
              /\ Len(wr.valuesFile) = Len(values)
              /\ BitmapMatches(wr.nullsFile, values)
              /\ \A k \in 1..Len(values) : SlotHolds(wr, k, values[k])

----------------------------------------------------------------------------
(* A stop before the rename, and the retry of the segment *)

\* Writer 1 opens segment 1 and may be stopped at any step; once it is
\* stopped, writer 2 retries the same segment id on a working disk.
RetryOpen == ~alive[1] /\ NewSegmentWriter(2, 1, TRUE, 0)

RetryNext ==
  \/ \E mkdirOk \in IoChoices(1), failAt \in FailAtFor(1) : NewSegmentWriter(1, 1, mkdirOk, failAt)
  \/ RetryOpen
  \/ \E w \in Writers : \E record \in RecordsFor(w) : WriteRecord(w, record)
  \/ Abort(1)
  \/ \E w \in Writers : \E closeOk \in [Cols -> IoChoices(w)] : CommitClose(w, closeOk)
  \/ \E w \in Writers : \E io \in IoChoices(w) : CommitMeta(w, io)
  \/ \E w \in Writers : \E io \in IoChoices(w) : CommitRename(w, io)
  \/ \E w \in Writers : \E io \in IoChoices(w) : ManifestLoad(w, io)
  \/ \E w \in Writers : \E io \in IoChoices(w) : ManifestCreate(w, io)
  \/ \E w \in Writers : \E io \in IoChoices(w) : ManifestEncode(w, io)
  \/ \E w \in Writers : \E io \in IoChoices(w) : ManifestWrite(w, io)
  \/ Stop(1)

\* The retrying caller keeps going: it calls NewSegmentWriter until it
\* returns a writer, writes its record, calls Commit, and a Commit call that
\* has started runs to its end.
RetryFairness ==
  /\ WF_vars(RetryOpen)
  /\ WF_vars(\E record \in RecordsFor(2) : WriteRecord(2, record))
  /\ WF_vars(\E closeOk \in [Cols -> IoChoices(2)] : CommitClose(2, closeOk))
  /\ WF_vars(CommitMetaStep(2))
  /\ WF_vars(CommitRenameStep(2))
  /\ WF_vars(AppendStep(2))

RetrySpec == Init /\ [][RetryNext]_vars /\ RetryFairness

\* the process of writer 1 was stopped before its rename
StoppedBeforeRename == ~alive[1] /\ ~sw[1].committed

(* C34 - When the process is stopped before the rename, no final directory
   and no manifest entry of the segment result from the stopped writer, and
   the retry of the same segment id eventually opens and commits the
   segment using calls of the core only. *)
C34_RetryAfterStop ==
  /\ [](StoppedBeforeRename =>
          \A id \in SegIds : fin[id].exists => fin[id].creator # 1)
  /\ [](StoppedBeforeRename /\ pc[2] = "none" => manifest = NoManifest)
  /\ StoppedBeforeRename ~> Committer(2, 1)

----------------------------------------------------------------------------
(* Rejected records *)

\* the errors with which WriteRecord rejects a record
Rejections == {ErrMissing, ErrNullViolation, ErrTypeMismatch, ErrNaN}

\* the last call that returned on w is a WriteRecord that rejected its record
JustRejected(w) == ret[w].op = "WriteRecord" /\ ret[w].err \in Rejections

\* w is open: constructed, not committed, not aborted by the caller or by a
\* failed Commit, and no call in progress
OpenWriter(w) ==
  /\ pc[w] = "ready" /\ ~sw[w].committed /\ ~aborted[w]
  /\ \A i \in Cols : ~sw[w].writers[i].closed

\* record is valid for the schema
ValidRecord(record) ==
  \A i \in Cols :
    \/ record[i].k = "nil" /\ schema[i].nullable
    \/ record[i].k \in Accepts(schema[i].type)

(* C35 - A rejected record does not poison the segment: after WriteRecord
   rejected a record on an open writer the writer is still open, a valid
   record written next is accepted, and a Commit called next does not fail
   on the record counts and publishes a record_count equal to the number of
   WriteRecord calls that returned success. *)
C35_RejectionDoesNotPoison ==
  [][\A w \in Writers :
       /\ (OpenWriter(w) /\ WriteRecordStep(w) /\ ret'[w].err \in Rejections) =>
            /\ pc'[w] = "ready" /\ ~sw'[w].committed
            /\ \A i \in Cols : ~sw'[w].writers[i].closed
       /\ \A record \in RecordsFor(w) :
            (OpenWriter(w) /\ JustRejected(w) /\ ValidRecord(record) /\ WriteRecord(w, record)) =>
              /\ ret'[w] = Ret("WriteRecord", ErrNone)
              /\ sw'[w].recordCount = sw[w].recordCount + 1
       /\ (JustRejected(w) /\ ~aborted[w] /\ CommitMeta(w, TRUE)) =>
            /\ pc'[w] = "commit_rename"
            /\ tmp'[sw[w].segmentID].meta[1].record_count = Len(accepted[w])]_vars

----------------------------------------------------------------------------
(* The manifest and the disk *)

(* C36 (as stated) - No manifest entry is lost: a manifest append that
   returns success leaves an entry of its segment id, and no step, whatever
   the interleaving of the appends of two writers, removes the entry of a
   segment id from the manifest. *)
C36_NoEntryLost ==
  [][/\ \A w \in Writers :
          (ManifestWriteStep(w) /\ ret'[w].err = ErrNone) => HasEntry(sw[w].segmentID)'
     /\ \A id \in SegIds : HasEntry(id) => HasEntry(id)']_vars

(* C36 (amended) - A manifest append that returns success leaves an entry of
   its segment id, and no step removes the entry of a segment id from the
   manifest, except the last step of an append during which the append of
   another writer replaced manifest.json (appends that were not serialized). *)
C36_SerializedNoEntryLost ==
  [][/\ \A w \in Writers :
          (ManifestWriteStep(w) /\ ret'[w].err = ErrNone) => HasEntry(sw[w].segmentID)'
     /\ (\A w \in Writers : ManifestWriteStep(w) => ~replaced[w]) =>
          \A id \in SegIds : HasEntry(id) => HasEntry(id)']_vars

\* the commit of segment 1 followed the commit of segment 2, and the manifest
\* lists both
C36_Witness ==
  /\ Len(manifest.segments) = 2
  /\ manifest.segments[1].id = 2 /\ manifest.segments[2].id = 1
  /\ ret[1] = Ret("Commit", ErrNone) /\ ret[2] = Ret("Commit", ErrNone)
  /\ HasEntry(1) /\ HasEntry(2)

(* C37 - The manifest never runs ahead of the disk: in every state, also
   after a stop of the process at any step, every manifest entry names a
   segment whose final directory exists with its metadata.json, the entry's
   record_count is the record_count of that metadata.json, and the steps of
   a manifest append are taken only by a writer whose rename succeeded. *)
C37_ManifestBehindDisk ==
  /\ [](\A k \in 1..Len(manifest.segments) :
          LET e == manifest.segments[k]
          IN /\ fin[e.id].exists
             /\ Len(fin[e.id].meta) = 1
             /\ fin[e.id].meta[1].record_count = e.record_count
             /\ e.path = RelPath(e.id))
  /\ [][\A w \in Writers :
          AppendStep(w) => sw[w].committed /\ fin[sw[w].segmentID].exists]_vars

----------------------------------------------------------------------------
(* After a failed Commit *)

\* a Commit call on w has failed before its rename: the writer is not
\* committed and its column writers are closed
FailedCommit(w) ==
  /\ pc[w] = "ready" /\ ~sw[w].committed
  /\ \A i \in Cols : sw[w].writers[i].closed

\* a step in which a Commit call on w returns an error before its rename
CommitFailsStep(w) ==
  /\ pc'[w] = "ready" /\ ret'[w].op = "Commit" /\ ret'[w].err # ErrNone
  /\ pc[w] \in {"ready", "commit_meta", "commit_rename"}
  /\ BeforeRenameStep(w) \/ CommitRenameStep(w)

(* C38 - A writer whose Commit failed before the rename never publishes
   afterwards: its committed flag is and stays false, every later
   WriteRecord on it fails and changes neither record_count nor a column,
   and every later Commit on it fails without making a final directory or a
   manifest entry.  (A step that leaves the other writers untouched is a
   step of w: WriteRecord, Commit, Abort or a stop of its process.) *)
C38_FailedCommitNeverPublishes ==
  [][\A w \in Writers :
       /\ CommitFailsStep(w) => FailedCommit(w)'
       /\ FailedCommit(w) =>
            /\ FailedCommit(w)'
            /\ IF ret'[w].op \in {"WriteRecord", "Commit"}
                 THEN ret'[w].err # ErrNone
                 ELSE ret'[w] = Ret("Abort", ErrNone)
            /\ OthersUntouched(w) =>
                 /\ sw'[w] = sw[w] /\ accepted'[w] = accepted[w]
                 /\ fin' = fin /\ manifest' = manifest]_vars

\* Commit failed on a writer holding one record, and a
\* second Commit failed on the closed column writers, publishing nothing
C38_Witness ==
  /\ FailedCommit(1)
  /\ ret[1] = Ret("Commit", CloseErr(schema[1], ErrAlreadyClosed))
  /\ sw[1].recordCount = 1 /\ Len(accepted[1]) = 1
  /\ ~fin[1].exists /\ ~HasEntry(1)

----------------------------------------------------------------------------
(* Counters of a column writer *)

\* the number of bits appended to the null bitmap of an open column writer
BitmapBits(wr) == 8 * Len(wr.nullsFile) + wr.nullBit

\* bit i (from 0) of the null bitmap of an open column writer
BitmapBit(wr, i) ==
  BitOf(IF i \div 8 < Len(wr.nullsFile) THEN wr.nullsFile[(i \div 8) + 1] ELSE wr.nullByte,
        7 - (i % 8))

(* C39 - In every column writer, after every Write call, successful or
   failing (a failure on the disk part-way included): the number of bits
   appended to the null bitmap equals the number of value slots appended
   equals RecordCount(), the bit cursor is in 0..7, and NullCount() is the
   number of 0 bits among the appended bits. *)
C39_CountersAgree ==
  ~cw.closed =>
    /\ BitmapBits(cw) = ValueSlots(cw)
    /\ ValueSlots(cw) = RecordCount(cw)
    /\ cw.nullBit \in 0..7
    /\ NullCount(cw) =
         Cardinality({i \in 0..(BitmapBits(cw) - 1) : BitmapBit(cw, i) = 0})

====
